---- MODULE Spec2Model ----
(***************************************************************************)
(* A model of the IoT sensor ingestion pipeline of cerebrourbano:          *)
(* IoTManager (iot_manager.py), SensorDataProcessor (sensor_processor.py)  *)
(* and the sensor catalogue (sensor_config.py).                            *)
(*                                                                         *)
(* Encoding of Python values                                               *)
(*   - a JSON number is [num |-> n]; sensor values are fixed-point with    *)
(*     one binary fractional digit (n = 2 * value, so 50.5 is 101) and     *)
(*     coordinates are in millidegrees (-5.188 is -5188);                  *)
(*   - a JSON string is [str |-> s]; a JSON object is [obj |-> f] with f   *)
(*     a function from its keys to JSON values; a JSON array is [arr |-> s]*)
(*   - a payload that json.loads cannot decode is [raw |-> bytes];         *)
(*   - a dict is a function whose DOMAIN is its key set, a list a sequence.*)
(***************************************************************************)
EXTENDS Integers, Sequences, FiniteSets, TLC

VARIABLES
    sensor_data,    \* IoTManager.sensor_data : type -> (sensor id -> processed reading)
    data_buffer,    \* IoTManager.data_buffer : type -> list of processed readings
    callbacks,      \* IoTManager.callbacks   : type -> list of subscribers
    clock,          \* datetime.now(), as a logical clock: one tick per delivered message
    msg,            \* the message on_message is processing, or processed last
    outcome,        \* how on_message ended for msg ("none" before the first message)
    calls,          \* the subscriber invocations made for msg, in order
    accepted,       \* history: the readings on_message stored, in delivery order
    pc,             \* position of the delivery thread inside on_message
    processed_data, \* on_message's local variable of that name
    idx,            \* on_message's position in the callback loop
    ret,            \* what the reader thread's last read call returned
    w2,             \* a second thread inside on_message: its position and locals
    connected,      \* IoTManager.connected
    client,         \* the paho client: its session, its network loop, its subscriptions
    reconnect_delay,\* IoTManager.reconnect_delay, in seconds
    routine,        \* thread -> its position in connect / _try_reconnect / disconnect
    stopped,        \* disconnect() has returned and connect() was not called since
    sensors,        \* IoTSensorManager.sensors : sensor id -> IoTSensor
    data_queue,     \* IoTSensorManager.data_queue, oldest item first
    running,        \* IoTSensorManager.running
    mqtt_client,    \* IoTSensorManager.mqtt_client: its session and its network loop
    workers,        \* the threads connect() started with target process_data, in order
    arrivals,       \* the messages IoTSensorManager.on_message was called with, counted
    last_queued     \* history: sensor id -> the last payload queued for it while registered

\* the state of IoTSensorManager (iot_sensors.py), which shares nothing with
\* IoTManager
sensor_manager == <<sensors, data_queue, running, mqtt_client, workers, arrivals,
                    last_queued>>

\* the state of IoTManager (iot_manager.py)
iot_manager == <<sensor_data, data_buffer, callbacks, clock, msg, outcome, calls,
                 accepted, pc, processed_data, idx, ret, w2, connected, client,
                 reconnect_delay, routine, stopped>>

\* the connection manager's part of the state, and the second writer
rest == <<w2, connected, client, reconnect_delay, routine, stopped, sensor_manager>>

vars == <<sensor_data, data_buffer, callbacks, clock, msg, outcome, calls,
          accepted, pc, processed_data, idx, ret, rest>>

-----------------------------------------------------------------------------
(* Bounds of the model *)

\* messages delivered in one behaviour
MaxMsgs == 3

\* threads IoTSensorManager.connect() starts in one behaviour
MaxWorkers == 2

\* IoTManager.buffer_size, 1000 in the source, scaled down so that overflow happens
buffer_size == 2

\* calls of connect() and disconnect() the application makes in one behaviour
MaxCalls == 3

\* sessions the broker accepts in one behaviour
MaxSessions == 2

\* failed calls of client.reconnect() in one behaviour
MaxFailures == 6

-----------------------------------------------------------------------------
(* Python values *)

JNum(n) == [num |-> n]
JStr(s) == [str |-> s]
JObj(f) == [obj |-> f]
IsNum(j) == "num" \in DOMAIN j
IsStr(j) == "str" \in DOMAIN j
IsObj(j) == "obj" \in DOMAIN j
IsArr(j) == "arr" \in DOMAIN j
IsRaw(j) == "raw" \in DOMAIN j

\* `key in d` for a dict d; for a str it is a substring test, which no field
\* name used here passes on the strings of the model; for a list it is
\* membership, and the lists of the model hold no field name
HasKey(j, k) == IsObj(j) /\ k \in DOMAIN j.obj

\* `key in d` raises TypeError for a number and for None
InRaises(j) == ~IsObj(j) /\ ~IsStr(j) /\ ~IsArr(j)

\* fixed-point image of the integer n of the catalogue
Fx(n) == 2 * n

\* float(v): defined for numbers; the strings of the model are not numerals
FloatOk(j) == IsNum(j)

None == [none |-> TRUE]

-----------------------------------------------------------------------------
(* sensor_config.py *)

Band(label, lo, hi) == [label |-> label, lo |-> lo, hi |-> hi]

SensorType(units, lo, hi, thresholds) ==
    [units |-> units, valid_range |-> <<lo, hi>>, thresholds |-> thresholds]

SENSOR_TYPES ==
    [air_quality |-> SensorType("AQI", 0, 500,
        << Band("good", 0, 50), Band("moderate", 51, 100),
           Band("unhealthy_sensitive", 101, 150), Band("unhealthy", 151, 200),
           Band("very_unhealthy", 201, 300), Band("hazardous", 301, 500) >>),
     temperature |-> SensorType("°C", -50, 100,
        << Band("very_cold", -50, 0), Band("cold", 0, 15), Band("moderate", 15, 25),
           Band("warm", 25, 35), Band("hot", 35, 100) >>),
     humidity |-> SensorType("%", 0, 100,
        << Band("very_dry", 0, 20), Band("dry", 20, 40), Band("moderate", 40, 60),
           Band("humid", 60, 80), Band("very_humid", 80, 100) >>),
     noise |-> SensorType("dB", 0, 200,
        << Band("quiet", 0, 30), Band("moderate", 30, 60), Band("loud", 60, 90),
           Band("very_loud", 90, 120), Band("dangerous", 120, 200) >>),
     traffic |-> SensorType("%", 0, 100,
        << Band("light", 0, 20), Band("moderate", 20, 40), Band("heavy", 40, 70),
           Band("congested", 70, 90), Band("gridlock", 90, 100) >>),
     flood |-> SensorType("mm", 0, 1000,
        << Band("normal", 0, 30), Band("attention", 31, 50), Band("alert", 51, 100),
           Band("danger", 101, 200), Band("critical", 201, 1000) >>),
     accidents |-> SensorType("ocorrências/dia", 0, 100,
        << Band("baixo", 0, 5), Band("moderado", 6, 15), Band("alto", 16, 30),
           Band("critico", 31, 100) >>),
     crime_rate |-> SensorType("ocorrências/dia", 0, 1000,
        << Band("baixo", 0, 10), Band("moderado", 11, 30), Band("alto", 31, 50),
           Band("critico", 51, 1000) >>),
     energy_consumption |-> SensorType("MW", 0, 1000,
        << Band("baixo", 0, 100), Band("normal", 101, 300), Band("alto", 301, 600),
           Band("critico", 601, 1000) >>),
     waste_collection |-> SensorType("ton/dia", 0, 1000,
        << Band("baixo", 0, 50), Band("normal", 51, 200), Band("alto", 201, 500),
           Band("critico", 501, 1000) >>),
     smart_camera |-> SensorType("status", 0, 1,
        << Band("offline", 0, 0), Band("online", 1, 1) >>),
     drone |-> SensorType("status", 0, 1,
        << Band("grounded", 0, 0), Band("patrolling", 1, 1) >>)]

\* ZONES[zone]["sensor_types"]; a zone's centre coordinates are read by nothing modelled
ZONES ==
    ("Centro" :> {"air_quality", "traffic", "noise", "temperature", "humidity",
                  "flood", "smart_camera", "drone"}) @@
    ("Zona Norte" :> {"air_quality", "traffic", "temperature", "humidity",
                      "flood", "smart_camera", "drone"}) @@
    ("Zona Sul" :> {"air_quality", "traffic", "temperature", "humidity",
                    "flood", "smart_camera"}) @@
    ("Zona Leste" :> {"air_quality", "traffic", "noise", "temperature", "humidity",
                      "flood", "smart_camera"}) @@
    ("Zona Oeste" :> {"air_quality", "traffic", "temperature", "humidity",
                      "flood", "smart_camera"})

\* VALIDATION_RULES
required_fields == <<"value", "unit", "timestamp", "sensor_id", "location">>
location_fields == <<"zone", "coordinates">>
lat_range == <<-5200, -5100>>
lon_range == <<-37400, -37300>>

\* the strings of the model that datetime.strptime parses under
\* timestamp_format "%Y-%m-%dT%H:%M:%S.%f"
timestamp_format == {"2024-05-01T12:00:00.000000"}

-----------------------------------------------------------------------------
(* sensor_processor.py *)

Valid == [valid |-> TRUE, error |-> <<>>]
Invalid(error) == [valid |-> FALSE, error |-> error]

\* min_val <= value <= max_val, on a fixed-point value and catalogue integers
Within(v, lo, hi) == Fx(lo) <= v /\ v <= Fx(hi)

\* the first of required_fields that data lacks, 0 when it has them all
FirstMissing(data) ==
    LET miss == {i \in 1..Len(required_fields) : ~HasKey(data, required_fields[i])}
    IN  IF miss = {} THEN 0 ELSE CHOOSE i \in miss : \A j \in miss : i <= j

\* data.get(key, default)
Get(data, key, default) == IF HasKey(data, key) THEN data.obj[key] ELSE default

\* a validator that forgets the zone check
ZoneKnown_Unchecked(zone) == TRUE

\* location["zone"] in ZONES, zone not a dict
ZoneKnown(zone) == IsStr(zone) /\ zone.str \in DOMAIN ZONES

\* a validator that forgets the bounding box
InBox_Unchecked(lat, lon) == TRUE

\* lat_range[0] <= lat <= lat_range[1] and lon_range[0] <= lon <= lon_range[1]
InBox(lat, lon) ==
    /\ lat_range[1] <= lat /\ lat <= lat_range[2]
    /\ lon_range[1] <= lon /\ lon <= lon_range[2]

\* an exception leaves the body of the validator
ProcessorRaises == [raised |-> TRUE, valid |-> FALSE, error |-> <<"Exception">>]

\* the result is an exception, not a return value
Raises(r) == "raised" \in DOMAIN r

\* a list or a dict cannot be looked up in a dict: `v in d` raises TypeError
Unhashable(v) == IsObj(v) \/ IsArr(v)

\* lines 15-65: the body of SensorDataProcessor.validate_sensor_data(data)
Processor_body(data) ==
    LET sensor_type == Get(data, "sensor_type", None)
        location    == Get(data, "location", JObj(<<>>))
        coords      == Get(location, "coordinates", JObj(<<>>))
        lat         == Get(coords, "lat", None)
        lon         == Get(coords, "lon", None)
    IN  IF InRaises(data)
          THEN ProcessorRaises                              \* `field not in data`: TypeError
        ELSE IF FirstMissing(data) # 0
          THEN Invalid(<<"Campo obrigatório ausente", required_fields[FirstMissing(data)]>>)
        ELSE IF Unhashable(sensor_type)
          THEN ProcessorRaises                              \* unhashable: TypeError
        ELSE IF ~(IsStr(sensor_type) /\ sensor_type.str \in DOMAIN SENSOR_TYPES)
          THEN Invalid(<<"Tipo de sensor inválido">>)
        ELSE IF ~FloatOk(data.obj["value"])
          THEN Invalid(<<"Valor do sensor inválido">>)
        ELSE IF ~Within(data.obj["value"].num,
                        SENSOR_TYPES[sensor_type.str].valid_range[1],
                        SENSOR_TYPES[sensor_type.str].valid_range[2])
          THEN Invalid(<<"Valor fora do range válido">>)
        ELSE IF ~IsStr(data.obj["timestamp"])
          THEN ProcessorRaises                              \* strptime: TypeError
        ELSE IF data.obj["timestamp"].str \notin timestamp_format
          THEN Invalid(<<"Formato de timestamp inválido">>)
        ELSE IF InRaises(location)
          THEN ProcessorRaises                              \* `field in location`: TypeError
        ELSE IF ~\A i \in 1..Len(location_fields) : HasKey(location, location_fields[i])
          THEN Invalid(<<"Formato de localização inválido">>)
        ELSE IF ~IsObj(coords)
          THEN ProcessorRaises                              \* no .get: AttributeError
        ELSE IF ~(IsNum(lat) /\ IsNum(lon))
          THEN Invalid(<<"Coordenadas inválidas">>)
        ELSE IF ~InBox(lat.num, lon.num)
          THEN Invalid(<<"Coordenadas fora do range válido para Mossoró">>)
        ELSE IF Unhashable(location.obj["zone"])
          THEN ProcessorRaises                              \* unhashable: TypeError
        ELSE IF ~ZoneKnown(location.obj["zone"])
          THEN Invalid(<<"Zona inválida">>)
        ELSE Valid

\* the validator without its except clause: the exception leaves the call
Processor_except_Propagates(r) == r

\* lines 67-68: except Exception as e: return False, f"Erro de validação: ..."
Processor_except(r) == IF Raises(r) THEN Invalid(<<"Erro de validação">>) ELSE r

\* SensorDataProcessor.validate_sensor_data(data)
Processor_validate_sensor_data(data) == Processor_except(Processor_body(data))

\* next((cat for cat, (min_val, max_val) in thresholds.items()
\*       if min_val <= value <= max_val), "unknown")
RECURSIVE FirstBand(_, _, _)
FirstBand(thresholds, i, value) ==
    IF i > Len(thresholds) THEN "unknown"
    ELSE IF Within(value, thresholds[i].lo, thresholds[i].hi) THEN thresholds[i].label
    ELSE FirstBand(thresholds, i + 1, value)

\* a scan in which the last matching band wins
RECURSIVE LastBand(_, _, _)
LastBand(thresholds, i, value) ==
    IF i < 1 THEN "unknown"
    ELSE IF Within(value, thresholds[i].lo, thresholds[i].hi) THEN thresholds[i].label
    ELSE LastBand(thresholds, i - 1, value)

Categorize_LastMatch(thresholds, value) == LastBand(thresholds, Len(thresholds), value)

Categorize(thresholds, value) == FirstBand(thresholds, 1, value)

\* the enrichment without its "unit" entry: the payload's unit stays when it has one
Enriched_KeepsUnit(data, now, category, units) ==
    JObj([k \in DOMAIN data.obj \cup {"processed_timestamp", "status_category", "trend", "unit"} |->
            CASE k = "processed_timestamp" -> [time |-> now]
              [] k = "status_category"     -> JStr(category)
              [] k = "trend"               -> JStr("stable")
              [] k = "unit" /\ k \notin DOMAIN data.obj -> JStr(units)
              [] OTHER                     -> data.obj[k]])

\* {**data, "processed_timestamp": ..., "status_category": ..., "trend": ..., "unit": ...}
Enriched(data, now, category, units) ==
    JObj([k \in DOMAIN data.obj \cup {"processed_timestamp", "status_category", "trend", "unit"} |->
            CASE k = "processed_timestamp" -> [time |-> now]
              [] k = "status_category"     -> JStr(category)
              [] k = "trend"               -> JStr("stable")
              [] k = "unit"                -> JStr(units)
              [] OTHER                     -> data.obj[k]])

\* SensorDataProcessor.process_sensor_data(data) at time now; on any exception
\* (no sensor_type, a type outside the catalogue, a value float() refuses) it
\* returns data itself
process_sensor_data(data, now) ==
    IF /\ HasKey(data, "sensor_type")
       /\ HasKey(data, "value")
       /\ FloatOk(data.obj["value"])
       /\ IsStr(data.obj["sensor_type"])
       /\ data.obj["sensor_type"].str \in DOMAIN SENSOR_TYPES
    THEN LET t == SENSOR_TYPES[data.obj["sensor_type"].str]
         IN  Enriched(data, now, Categorize(t.thresholds, data.obj["value"].num), t.units)
    ELSE data

-----------------------------------------------------------------------------
(* iot_manager.py: validation and the store *)

\* the local dict `ranges` of IoTManager.validate_sensor_data
ranges ==
    [temperature |-> <<-50, 100>>, humidity |-> <<0, 100>>, air_quality |-> <<0, 500>>,
     noise |-> <<0, 200>>, traffic |-> <<0, 100>>]

\* what IoTManager.validate_sensor_data returns, and an exception leaving its body
Returns(b) == [returns |-> b]
ManagerRaises == [raised |-> TRUE, returns |-> FALSE]

\* lines 128-166: the body of IoTManager.validate_sensor_data(data, sensor_type)
Manager_body(data, sensor_type) ==
    IF InRaises(data)
      THEN ManagerRaises                                    \* `field in data`: TypeError
    ELSE IF ~\A field \in {"value", "unit", "location", "timestamp"} : HasKey(data, field)
      THEN Returns(FALSE)
    ELSE IF \/ ~IsObj(data.obj["location"])
            \/ ~\A k \in {"zone", "coordinates"} : HasKey(data.obj["location"], k)
      THEN Returns(FALSE)
    ELSE IF \/ ~IsObj(data.obj["location"].obj["coordinates"])
            \/ ~\A k \in {"lat", "lon"} : HasKey(data.obj["location"].obj["coordinates"], k)
      THEN Returns(FALSE)
    ELSE IF sensor_type \in DOMAIN ranges
      THEN IF ~FloatOk(data.obj["value"])
             THEN ManagerRaises                             \* float(): ValueError, TypeError
           ELSE Returns(Within(data.obj["value"].num,
                               ranges[sensor_type][1], ranges[sensor_type][2]))
    ELSE Returns(TRUE)

\* lines 167-169: except Exception as e: ... return False
Manager_except(r) == IF Raises(r) THEN Returns(FALSE) ELSE r

\* IoTManager.validate_sensor_data(data, sensor_type)
IoTManager_validate_sensor_data(data, sensor_type) ==
    Manager_except(Manager_body(data, sensor_type)).returns

\* topic_parts[-1] and topic_parts[-2] of msg.topic.split('/'), the topic being
\* kept as its list of segments
TopicType(m) == m.topic[Len(m.topic)]
TopicId(m) == m.topic[Len(m.topic) - 1]

\* on_message with its first except clause only: any other exception leaves
\* the call
on_message_except_JsonOnly(exception) ==
    IF exception = "JSONDecodeError" THEN "JSONDecodeError" ELSE "propagated"

\* lines 213-216: except json.JSONDecodeError ... except Exception; the result
\* names the clause that logged the exception and ended on_message
on_message_except(exception) ==
    IF exception = "JSONDecodeError" THEN "JSONDecodeError" ELSE "Exception"

\* on_message, lines 174-190: decode, parse the topic, validate twice, enrich.
\* status is "stored" when the message goes on to the store, and otherwise
\* names the return or the except clause that ended on_message.
Route(m, now) ==
    LET n    == Len(m.topic)
        none        == [status |-> "", error |-> <<>>, sensor_type |-> "", sensor_id |-> "",
                        processed_data |-> None]
    IN  IF IsRaw(m.payload)
          THEN [none EXCEPT !.status = on_message_except("JSONDecodeError")]
        ELSE IF n < 2                                        \* topic_parts[-2]
          THEN [none EXCEPT !.status = on_message_except("IndexError")]
        ELSE IF ~IoTManager_validate_sensor_data(m.payload, TopicType(m))
          THEN [none EXCEPT !.status = "rejected"]
        ELSE IF ~Processor_validate_sensor_data(m.payload).valid
          THEN [none EXCEPT !.status = "invalid",
                            !.error = Processor_validate_sensor_data(m.payload).error]
        ELSE [status |-> "stored", error |-> <<>>,
              sensor_type |-> TopicType(m), sensor_id |-> TopicId(m),
              processed_data |-> process_sensor_data(m.payload, now)]

\* self.data_buffer[sensor_type].append(processed_data), under its `if`
BufferAppend(buffer, sensor_type, reading) ==
    IF sensor_type \in DOMAIN buffer
    THEN [buffer EXCEPT ![sensor_type] = Append(@, reading)]
    ELSE buffer

\* an overflow that drops the newest reading: pop() for pop(0)
BufferTrim_DropNewest(buffer, sensor_type) ==
    IF sensor_type \in DOMAIN buffer /\ Len(buffer[sensor_type]) > buffer_size
    THEN [buffer EXCEPT ![sensor_type] = SubSeq(@, 1, Len(@) - 1)]
    ELSE buffer

\* if len(self.data_buffer[sensor_type]) > self.buffer_size: ...pop(0)
BufferTrim(buffer, sensor_type) ==
    IF sensor_type \in DOMAIN buffer /\ Len(buffer[sensor_type]) > buffer_size
    THEN [buffer EXCEPT ![sensor_type] = Tail(@)]
    ELSE buffer

\* d[key] = value on a dict
DictSet(d, key, value) == [k \in DOMAIN d \cup {key} |-> IF k = key THEN value ELSE d[k]]

\* if sensor_type not in self.sensor_data: self.sensor_data[sensor_type] = {}
EnsureBucket(data, sensor_type) ==
    IF sensor_type \notin DOMAIN data THEN DictSet(data, sensor_type, <<>>) ELSE data

\* setdefault for the assignment: the first reading of a sensor stays
SetLatest_KeepFirst(data, sensor_type, sensor_id, reading) ==
    IF sensor_id \in DOMAIN data[sensor_type] THEN data
    ELSE DictSet(data, sensor_type, DictSet(data[sensor_type], sensor_id, reading))

\* self.sensor_data[sensor_type][sensor_id] = processed_data
SetLatest(data, sensor_type, sensor_id, reading) ==
    DictSet(data, sensor_type, DictSet(data[sensor_type], sensor_id, reading))

\* the loop over self.callbacks[sensor_type]: every subscriber is called with
\* the reading; one that raises is caught and the loop goes on
\* the subscribers whose body raises an Exception whenever it is called
Raising == {"cbB"}

\* the subscribers whose body calls IoTManager.disconnect()
Stopping == {"cbStop"}

\* the loop without its try / except: the first subscriber that raises ends it
Invocations_StopAtError(cbs, sensor_type, reading) ==
    IF sensor_type \in DOMAIN cbs
    THEN LET l == cbs[sensor_type]
             n == IF \E i \in 1..Len(l) : l[i] \in Raising
                  THEN CHOOSE i \in 1..Len(l) :
                           l[i] \in Raising /\ \A j \in 1..(i - 1) : l[j] \notin Raising
                  ELSE Len(l)
         IN  [i \in 1..n |-> [callback |-> l[i], arg |-> reading,
                              raised |-> l[i] \in Raising]]
    ELSE <<>>

Invocations(cbs, sensor_type, reading) ==
    IF sensor_type \in DOMAIN cbs
    THEN [i \in 1..Len(cbs[sensor_type]) |->
             [callback |-> cbs[sensor_type][i], arg |-> reading,
              raised |-> cbs[sensor_type][i] \in Raising]]
    ELSE <<>>

\* the subscriber put in front of the type's list
Registered_Prepend(cbs, sensor_type, callback) ==
    DictSet(cbs, sensor_type,
            <<callback>> \o (IF sensor_type \in DOMAIN cbs THEN cbs[sensor_type] ELSE <<>>))

\* lines 252-254: the type's list is created when missing, the subscriber appended
Registered(cbs, sensor_type, callback) ==
    DictSet(cbs, sensor_type,
            Append(IF sensor_type \in DOMAIN cbs THEN cbs[sensor_type] ELSE <<>>, callback))

\* IoTManager.get_latest_data(sensor_type), sensor_type a non-empty string
get_latest_data(sensor_type) ==
    IF sensor_type \notin DOMAIN data_buffer THEN <<>>
    ELSE IF sensor_type \in DOMAIN sensor_data THEN sensor_data[sensor_type]
    ELSE <<>>

\* IoTManager.get_buffer_data(sensor_type), without a limit
get_buffer_data(sensor_type) ==
    IF sensor_type \notin DOMAIN data_buffer THEN <<>> ELSE data_buffer[sensor_type]

-----------------------------------------------------------------------------
(* The messages delivered to on_message *)

Topic(sensor_id, sensor_type) == <<"mossoro", "sensors", sensor_id, sensor_type>>

Location(zone, lat, lon) ==
    JObj([zone |-> JStr(zone),
          coordinates |-> JObj([lat |-> JNum(lat), lon |-> JNum(lon)])])

\* a payload with exactly the fields of the documented message format
Documented(value, zone) ==
    JObj([value |-> JNum(value), unit |-> JStr("°C"),
          timestamp |-> JStr("2024-05-01T12:00:00.000000"),
          location |-> Location(zone, -5188, -37344)])

With(payload, key, value) == JObj(DictSet(payload.obj, key, value))
Without(payload, key) == JObj([k \in DOMAIN payload.obj \ {key} |-> payload.obj[k]])

\* the documented payload plus the sensor_id and sensor_type keys that
\* SensorDataProcessor reads from the payload
Reading(sensor_id, sensor_type, value, zone) ==
    With(With(Documented(value, zone), "sensor_id", JStr(sensor_id)),
         "sensor_type", JStr(sensor_type))

Message(topic, payload) == [topic |-> topic, payload |-> payload]

\* temperature 45.0 in Centro: the documented payload, and with the two extra keys
MsgDocumented == Message(Topic("s1", "temperature"), Documented(90, "Centro"))
MsgHot        == Message(Topic("s1", "temperature"), Reading("s1", "temperature", 90, "Centro"))
\* 35.0 lies on the boundary of the bands warm and hot
MsgBoundary   == Message(Topic("s2", "temperature"), Reading("s2", "temperature", 70, "Centro"))
\* 500.0 is outside the temperature range
MsgTooHot     == Message(Topic("s1", "temperature"), Reading("s1", "temperature", 1000, "Centro"))
\* 50.5 lies between the air_quality bands good and moderate
MsgGap        == Message(Topic("s1", "air_quality"), Reading("s1", "air_quality", 101, "Centro"))
\* the payload names another sensor type than the topic
MsgMixed      == Message(Topic("s1", "temperature"), Reading("s1", "humidity", 60, "Centro"))
MsgCamera     == Message(Topic("s1", "smart_camera"), Reading("s1", "temperature", 90, "Centro"))
MsgMarte      == Message(Topic("s1", "temperature"), Reading("s1", "temperature", 90, "Marte"))
\* Zona Norte has no noise sensors
MsgNoiseNorte == Message(Topic("s1", "noise"), Reading("s1", "noise", 140, "Zona Norte"))
\* a topic whose last segment is no sensor type of the catalogue
MsgUnknownTopic == Message(Topic("s1", "xyz"), Reading("s1", "temperature", 90, "Centro"))
\* a catalogue type that IoTManager keeps no buffer for
MsgFlood      == Message(Topic("s1", "flood"), Reading("s1", "flood", 20, "Centro"))
MsgNotJson    == Message(Topic("s1", "temperature"), [raw |-> "not json"])
MsgNoUnit     == Message(Topic("s1", "temperature"),
                         Without(Reading("s1", "temperature", 90, "Centro"), "unit"))
MsgUnknownType == Message(Topic("s1", "temperature"), Reading("s1", "xyz", 90, "Centro"))
MsgBadTime    == Message(Topic("s1", "temperature"),
                         With(Reading("s1", "temperature", 90, "Centro"),
                              "timestamp", JStr("01/05/2024 12:00")))
MsgFarAway    == Message(Topic("s1", "temperature"),
                         With(Reading("s1", "temperature", 90, "Centro"),
                              "location", Location("Centro", -6000, -37344)))
MsgShortTopic == Message(<<"temperature">>, Reading("s1", "temperature", 90, "Centro"))

Inbound ==
    {MsgDocumented, MsgHot, MsgBoundary, MsgTooHot, MsgGap, MsgMixed, MsgCamera,
     MsgMarte, MsgNoiseNorte, MsgUnknownTopic, MsgFlood, MsgNotJson, MsgNoUnit,
     MsgUnknownType, MsgBadTime, MsgFarAway, MsgShortTopic}

\* the subscribers that may register, and the types they register for
Subscribers == {"cbA", "cbB"}
SubscribedTypes == {"temperature", "xyz"}

-----------------------------------------------------------------------------
(* The state after IoTManager.__init__ *)

NoMessage == Message(<<>>, None)
NoOutcome == [status |-> "none", error |-> <<>>]
NoRead == [call |-> "none", sensor_type |-> "", buffer |-> <<>>, latest |-> <<>>]
NoWriter == [pc |-> "idle", msg |-> NoMessage, processed_data |-> None]

\* the paho client after mqtt.Client(): no socket, no network thread, nothing
\* subscribed; sessions and loops count the sessions opened and the threads
\* started, event is the callback the client made last
NoSession == [session |-> "none", loop |-> FALSE, subscriptions |-> {},
              sessions |-> 0, loops |-> 0,
              event |-> [handler |-> "none", rc |-> 0, session |-> 0]]

\* the threads that run IoTManager code: the application's thread, and the
\* network thread that loop_start() creates
Threads == {"caller", "network"}
\* a thread outside connect / _try_reconnect / disconnect: op is the API call
\* it made last, result how that call ended, n the number of calls so far;
\* attempts is the local variable of _try_reconnect, wait the seconds of the
\* time.sleep the thread is in (0 outside a sleep)
Idle == [pc |-> "idle", attempts |-> 0, wait |-> 0, op |-> "none", result |-> "none", n |-> 0]

Init ==
    /\ sensor_data = <<>>
    /\ data_buffer = [t \in {"temperature", "humidity", "air_quality", "noise", "traffic"} |-> <<>>]
    /\ callbacks = <<>>
    /\ clock = 0
    /\ msg = NoMessage
    /\ outcome = NoOutcome
    /\ calls = <<>>
    /\ accepted = <<>>
    /\ pc = "idle"
    /\ processed_data = None
    /\ idx = 0
    /\ ret = NoRead
    /\ w2 = NoWriter
    /\ connected = FALSE
    /\ client = NoSession
    /\ reconnect_delay = 5
    /\ routine = [t \in Threads |-> Idle]
    /\ stopped = FALSE
    /\ sensors = <<>>
    /\ data_queue = <<>>
    /\ running = FALSE
    /\ mqtt_client = [session |-> "none", loop |-> FALSE]
    /\ workers = <<>>
    /\ arrivals = 0
    /\ last_queued = <<>>

-----------------------------------------------------------------------------
(* The handlers, each as one step *)

\* IoTManager.on_message(client, userdata, m), run to its end
on_message(m) ==
    LET r == Route(m, clock + 1)
        t == r.sensor_type
        p == r.processed_data
    IN  /\ pc = "idle"
        /\ clock < MaxMsgs
        /\ clock' = clock + 1
        /\ msg' = m
        /\ outcome' = [status |-> r.status, error |-> r.error]
        /\ IF r.status = "stored"
           THEN /\ data_buffer' = BufferTrim(BufferAppend(data_buffer, t, p), t)
                /\ sensor_data' = SetLatest(EnsureBucket(sensor_data, t), t, r.sensor_id, p)
                /\ calls' = Invocations(callbacks, t, p)
                /\ accepted' = Append(accepted, [sensor_type |-> t, sensor_id |-> r.sensor_id,
                                                 reading |-> p])
           ELSE /\ calls' = <<>>
                /\ UNCHANGED <<data_buffer, sensor_data, accepted>>
        /\ UNCHANGED <<callbacks, pc, processed_data, idx, ret, rest>>

\* the values passed as callback that are not callable: a str, None
NotCallable == {"a str", "None"}

\* register_callback without the test of line 249
callable_Anything(callback) == TRUE

\* callable(callback), line 249
callable(callback) == callback \notin NotCallable

\* IoTManager.register_callback(sensor_type, callback): the ValueError of line
\* 250 goes to the caller, a callable is appended to the list of the type.
\* The first conjunct bounds the runs: each subscriber registers once.
register_callback(sensor_type, callback) ==
    /\ \A t \in DOMAIN callbacks : \A i \in 1..Len(callbacks[t]) : callbacks[t][i] # callback
    /\ IF ~callable(callback)
       THEN /\ ret' = [call |-> "register_callback", sensor_type |-> sensor_type,
                       callback |-> callback, raised |-> "ValueError"]
            /\ UNCHANGED callbacks
       ELSE /\ callbacks' = Registered(callbacks, sensor_type, callback)
            /\ UNCHANGED ret
    /\ UNCHANGED <<sensor_data, data_buffer, clock, msg, outcome, calls, accepted,
                   pc, processed_data, idx, rest>>

Next ==
    \/ \E m \in Inbound : on_message(m)
    \/ \E t \in SubscribedTypes, cb \in Subscribers : register_callback(t, cb)

Spec == Init /\ [][Next]_vars

-----------------------------------------------------------------------------
(* on_message statement by statement on the delivery thread, with a reader  *)
(* thread calling the read API in between. The delivery thread runs one     *)
(* on_message at a time; nothing in IoTManager takes a lock.                *)

\* lines 174-190: everything on_message does before it touches the Store
Receive(m) ==
    LET r == Route(m, clock + 1)
    IN  /\ pc = "idle"
        /\ clock < MaxMsgs
        /\ clock' = clock + 1
        /\ msg' = m
        /\ outcome' = [status |-> r.status, error |-> r.error]
        /\ calls' = <<>>
        /\ IF r.status = "stored"
           THEN /\ pc' = "append"
                /\ processed_data' = r.processed_data
                /\ accepted' = Append(accepted, [sensor_type |-> r.sensor_type,
                                                 sensor_id |-> r.sensor_id,
                                                 reading |-> r.processed_data])
           ELSE UNCHANGED <<pc, processed_data, accepted>>
        /\ UNCHANGED <<sensor_data, data_buffer, callbacks, idx, ret, rest>>

\* line 193-194
StepAppend ==
    /\ pc = "append"
    /\ data_buffer' = BufferAppend(data_buffer, TopicType(msg), processed_data)
    /\ pc' = "trim"
    /\ UNCHANGED <<sensor_data, callbacks, clock, msg, outcome, calls, accepted,
                   processed_data, idx, ret, rest>>

\* lines 195-196
StepTrim ==
    /\ pc = "trim"
    /\ data_buffer' = BufferTrim(data_buffer, TopicType(msg))
    /\ pc' = "bucket"
    /\ UNCHANGED <<sensor_data, callbacks, clock, msg, outcome, calls, accepted,
                   processed_data, idx, ret, rest>>

\* lines 198-199
StepBucket ==
    /\ pc = "bucket"
    /\ sensor_data' = EnsureBucket(sensor_data, TopicType(msg))
    /\ pc' = "latest"
    /\ UNCHANGED <<data_buffer, callbacks, clock, msg, outcome, calls, accepted,
                   processed_data, idx, ret, rest>>

\* line 201; a bucket that disappeared in between is a KeyError, which the
\* last except clause of on_message swallows
StepLatest ==
    /\ pc = "latest"
    /\ IF TopicType(msg) \in DOMAIN sensor_data
       THEN /\ sensor_data' = SetLatest(sensor_data, TopicType(msg), TopicId(msg),
                                        processed_data)
            /\ pc' = "dispatch"
            /\ idx' = 1
            /\ UNCHANGED processed_data
       ELSE /\ pc' = "idle"
            /\ idx' = 0
            /\ processed_data' = None
            /\ UNCHANGED sensor_data
    /\ UNCHANGED <<data_buffer, callbacks, clock, msg, outcome, calls, accepted, ret, rest>>

\* the subscriber whose turn it is in the loop calls disconnect()
NextStops ==
    /\ TopicType(msg) \in DOMAIN callbacks
    /\ idx <= Len(callbacks[TopicType(msg)])
    /\ callbacks[TopicType(msg)][idx] \in Stopping

\* lines 204-209, one turn of the loop, or its end
StepDispatch ==
    /\ pc = "dispatch"
    /\ ~NextStops
    /\ IF TopicType(msg) \in DOMAIN callbacks /\ idx <= Len(callbacks[TopicType(msg)])
       THEN /\ calls' = Append(calls, [callback |-> callbacks[TopicType(msg)][idx],
                                       arg |-> processed_data,
                                       raised |-> callbacks[TopicType(msg)][idx] \in Raising])
            /\ idx' = idx + 1
            /\ UNCHANGED <<pc, processed_data>>
       ELSE /\ pc' = "idle"
            /\ idx' = 0
            /\ processed_data' = None
            /\ UNCHANGED calls
    /\ UNCHANGED <<sensor_data, data_buffer, callbacks, clock, msg, outcome, accepted, ret, rest>>

\* the reader calls get_buffer_data(sensor_type) ...
ReadBuffer(sensor_type) ==
    /\ ret' = [call |-> "get_buffer_data", sensor_type |-> sensor_type,
               buffer |-> get_buffer_data(sensor_type), latest |-> <<>>]
    /\ UNCHANGED <<sensor_data, data_buffer, callbacks, clock, msg, outcome, calls,
                   accepted, pc, processed_data, idx, rest>>

\* ... and then get_latest_data of the same type
ReadLatest ==
    /\ ret.call = "get_buffer_data"
    /\ ret' = [ret EXCEPT !.call = "get_latest_data",
                          !.latest = get_latest_data(ret.sensor_type)]
    /\ UNCHANGED <<sensor_data, data_buffer, callbacks, clock, msg, outcome, calls,
                   accepted, pc, processed_data, idx, rest>>

\* the messages and the reads of the interleaved runs
InboundConc == {MsgHot, MsgBoundary, MsgTooHot, MsgFlood}
ReadTypes == {"temperature", "flood"}

NextConc ==
    \/ \E m \in InboundConc : Receive(m)
    \/ StepAppend
    \/ StepTrim
    \/ StepBucket
    \/ StepLatest
    \/ StepDispatch
    \/ \E cb \in Subscribers : register_callback("temperature", cb)
    \/ \E t \in ReadTypes : ReadBuffer(t)
    \/ ReadLatest

SpecConc == Init /\ [][NextConc]_vars

-----------------------------------------------------------------------------
(* Two threads inside on_message at once. on_message takes no lock, so the  *)
(* statements of the two calls interleave; the test of line 198 and the     *)
(* assignment of line 199 are separate statements.                          *)

\* line 198: if sensor_type not in self.sensor_data
StepBucketCheck ==
    /\ pc = "bucket"
    /\ pc' = IF TopicType(msg) \in DOMAIN sensor_data THEN "latest" ELSE "create"
    /\ UNCHANGED <<sensor_data, data_buffer, callbacks, clock, msg, outcome, calls,
                   accepted, processed_data, idx, ret, rest>>

\* line 199: self.sensor_data[sensor_type] = {}
StepBucketCreate ==
    /\ pc = "create"
    /\ sensor_data' = DictSet(sensor_data, TopicType(msg), <<>>)
    /\ pc' = "latest"
    /\ UNCHANGED <<data_buffer, callbacks, clock, msg, outcome, calls, accepted,
                   processed_data, idx, ret, rest>>

\* lines 174-190 on the second thread
Receive2(m) ==
    LET r == Route(m, clock + 1)
    IN  /\ w2.pc = "idle"
        /\ clock < MaxMsgs
        /\ clock' = clock + 1
        /\ IF r.status = "stored"
           THEN /\ w2' = [pc |-> "append", msg |-> m, processed_data |-> r.processed_data]
                /\ accepted' = Append(accepted, [sensor_type |-> r.sensor_type,
                                                 sensor_id |-> r.sensor_id,
                                                 reading |-> r.processed_data])
           ELSE UNCHANGED <<w2, accepted>>
        /\ UNCHANGED <<sensor_data, data_buffer, callbacks, msg, outcome, calls, pc,
                       processed_data, idx, ret, connected, client, reconnect_delay,
                       routine, stopped, sensor_manager>>

\* lines 193-209 on the second thread, one statement at a time
Step2 ==
    LET t == TopicType(w2.msg)
        p == w2.processed_data
    IN  /\ w2.pc # "idle"
        /\ CASE w2.pc = "append" ->
                  /\ data_buffer' = BufferAppend(data_buffer, t, p)
                  /\ w2' = [w2 EXCEPT !.pc = "trim"]
                  /\ UNCHANGED <<sensor_data, calls>>
             [] w2.pc = "trim" ->
                  /\ data_buffer' = BufferTrim(data_buffer, t)
                  /\ w2' = [w2 EXCEPT !.pc = "bucket"]
                  /\ UNCHANGED <<sensor_data, calls>>
             [] w2.pc = "bucket" ->
                  /\ w2' = [w2 EXCEPT !.pc = IF t \in DOMAIN sensor_data
                                              THEN "latest" ELSE "create"]
                  /\ UNCHANGED <<sensor_data, data_buffer, calls>>
             [] w2.pc = "create" ->
                  /\ sensor_data' = DictSet(sensor_data, t, <<>>)
                  /\ w2' = [w2 EXCEPT !.pc = "latest"]
                  /\ UNCHANGED <<data_buffer, calls>>
             [] w2.pc = "latest" ->
                  /\ IF t \in DOMAIN sensor_data
                     THEN /\ sensor_data' = SetLatest(sensor_data, t, TopicId(w2.msg), p)
                          /\ w2' = [w2 EXCEPT !.pc = "dispatch"]
                     ELSE /\ w2' = NoWriter
                          /\ UNCHANGED sensor_data
                  /\ UNCHANGED <<data_buffer, calls>>
             [] w2.pc = "dispatch" ->
                  /\ calls' = calls \o Invocations(callbacks, t, p)
                  /\ w2' = NoWriter
                  /\ UNCHANGED <<sensor_data, data_buffer>>
        /\ UNCHANGED <<callbacks, clock, msg, outcome, accepted, pc, processed_data,
                       idx, ret, connected, client, reconnect_delay, routine, stopped, sensor_manager>>

\* the messages of the two-thread runs: two sensors of one type, one of another
InboundWriters == {MsgHot, MsgBoundary, MsgNoiseNorte}

NextWriters ==
    \/ \E m \in InboundWriters : Receive(m)
    \/ StepAppend
    \/ StepTrim
    \/ StepBucketCheck
    \/ StepBucketCreate
    \/ StepLatest
    \/ StepDispatch
    \/ \E m \in InboundWriters : Receive2(m)
    \/ Step2

SpecWriters == Init /\ [][NextWriters]_vars

-----------------------------------------------------------------------------
(* What the read API and the subscribers are handed. Python passes objects  *)
(* by reference: a returned dict or list is named here by the place of the  *)
(* Store it is, or as new when the call built it.                           *)

New == [object |-> "new", elements |-> <<>>]

\* get_latest_data(sensor_type), lines 221-226: self.sensor_data.get(sensor_type, {})
\* is the bucket itself when there is one
LatestRef(sensor_type) ==
    IF sensor_type \notin DOMAIN data_buffer THEN New
    ELSE IF sensor_type \in DOMAIN sensor_data
         THEN [object |-> "bucket", sensor_type |-> sensor_type]
         ELSE New

\* data[:limit], the oldest readings instead of the newest
Slice_Oldest(data, limit) ==
    IF limit >= Len(data) THEN data ELSE SubSeq(data, 1, limit)

\* data[-limit:], limit > 0
Slice(data, limit) ==
    IF limit >= Len(data) THEN data ELSE SubSeq(data, Len(data) - limit + 1, Len(data))

\* get_buffer_data(sensor_type, limit), lines 235-242; limit = 0 stands for None.
\* data[-limit:] is a new list of the same reading objects
BufferRef(sensor_type, limit) ==
    IF sensor_type \notin DOMAIN data_buffer THEN New
    ELSE IF limit > 0
         THEN [object |-> "new", elements |-> Slice(data_buffer[sensor_type], limit)]
         ELSE [object |-> "buffer", sensor_type |-> sensor_type]

\* the reading objects reachable through a reference
Reachable(ref) ==
    IF ref.object = "bucket"
    THEN {sensor_data[ref.sensor_type][i] : i \in DOMAIN sensor_data[ref.sensor_type]}
    ELSE IF ref.object = "buffer"
    THEN {data_buffer[ref.sensor_type][k] : k \in 1..Len(data_buffer[ref.sensor_type])}
    ELSE {ref.elements[k] : k \in 1..Len(ref.elements)}

\* reading['value'] = 0.0 done by whoever holds the reading object
Tampered(reading) == [obj |-> [reading.obj EXCEPT !["value"] = JNum(0)]]

\* the Store after an assignment to a field of the reading object r: the
\* buffer entry and the latest entry are that one object
LatestAfter(r) ==
    [t \in DOMAIN sensor_data |->
        [i \in DOMAIN sensor_data[t] |->
            IF sensor_data[t][i] = r THEN Tampered(r) ELSE sensor_data[t][i]]]
BufferAfter(r) ==
    [t \in DOMAIN data_buffer |->
        [k \in 1..Len(data_buffer[t]) |->
            IF data_buffer[t][k] = r THEN Tampered(r) ELSE data_buffer[t][k]]]

\* the reader thread calls get_latest_data(sensor_type) and keeps the result
HoldLatest(sensor_type) ==
    /\ ret' = [call |-> "get_latest_data", sensor_type |-> sensor_type,
               ref |-> LatestRef(sensor_type)]
    /\ UNCHANGED <<sensor_data, data_buffer, callbacks, clock, msg, outcome, calls,
                   accepted, pc, processed_data, idx, rest>>

\* the reader thread calls get_buffer_data(sensor_type, limit) and keeps the result
HoldBuffer(sensor_type, limit) ==
    /\ ret' = [call |-> "get_buffer_data", sensor_type |-> sensor_type,
               ref |-> BufferRef(sensor_type, limit)]
    /\ UNCHANGED <<sensor_data, data_buffer, callbacks, clock, msg, outcome, calls,
                   accepted, pc, processed_data, idx, rest>>

\* the reader empties what it was returned: result.clear()
ClearResult ==
    /\ ret.call \in {"get_latest_data", "get_buffer_data"}
    /\ IF ret.ref.object = "bucket"
       THEN /\ sensor_data' = DictSet(sensor_data, ret.ref.sensor_type, <<>>)
            /\ UNCHANGED <<data_buffer, ret>>
       ELSE IF ret.ref.object = "buffer"
       THEN /\ data_buffer' = DictSet(data_buffer, ret.ref.sensor_type, <<>>)
            /\ UNCHANGED <<sensor_data, ret>>
       ELSE /\ ret' = [ret EXCEPT !.ref = New]
            /\ UNCHANGED <<sensor_data, data_buffer>>
    /\ UNCHANGED <<callbacks, clock, msg, outcome, calls, accepted, pc,
                   processed_data, idx, rest>>

\* the reader assigns to a field of a reading it was returned
TamperResult ==
    /\ ret.call \in {"get_latest_data", "get_buffer_data"}
    /\ \E r \in Reachable(ret.ref) :
          /\ r # Tampered(r)
          /\ sensor_data' = LatestAfter(r)
          /\ data_buffer' = BufferAfter(r)
          /\ ret' = IF ret.ref.object = "new"
                    THEN [ret EXCEPT !.ref.elements =
                             [k \in 1..Len(ret.ref.elements) |->
                                 IF ret.ref.elements[k] = r THEN Tampered(r)
                                 ELSE ret.ref.elements[k]]]
                    ELSE ret
    /\ UNCHANGED <<callbacks, clock, msg, outcome, calls, accepted, pc,
                   processed_data, idx, rest>>

\* a subscriber assigns to a field of the reading it was called with (line 206
\* passes processed_data, the object that lines 194 and 201 stored)
TamperArgument ==
    /\ \E n \in 1..Len(calls) :
          /\ calls[n].arg # Tampered(calls[n].arg)
          /\ sensor_data' = LatestAfter(calls[n].arg)
          /\ data_buffer' = BufferAfter(calls[n].arg)
          /\ calls' = [k \in 1..Len(calls) |->
                          IF calls[k].arg = calls[n].arg
                          THEN [calls[k] EXCEPT !.arg = Tampered(calls[n].arg)]
                          ELSE calls[k]]
    /\ UNCHANGED <<callbacks, clock, msg, outcome, accepted, pc,
                   processed_data, idx, ret, rest>>

\* the messages, the types read and the limits of these runs
InboundAlias == {MsgHot, MsgBoundary}
AliasTypes == {"temperature", "humidity", "flood"}
Limits == {0, 1}

NextAlias ==
    \/ \E m \in InboundAlias : on_message(m)
    \/ register_callback("temperature", "cbA")
    \/ \E t \in AliasTypes : HoldLatest(t)
    \/ \E t \in AliasTypes, limit \in Limits : HoldBuffer(t, limit)
    \/ ClearResult
    \/ TamperResult
    \/ TamperArgument

SpecAlias == Init /\ [][NextAlias]_vars

-----------------------------------------------------------------------------
(* The read API with any argument. An argument is a Python value: a string  *)
(* [str |-> s], None, a list [arr |-> s], an int [int |-> n] or a float     *)
(* [float |-> n]. The body of each method is inside try / except Exception. *)

PyInt(n) == [int |-> n]
PyFloat(n) == [float |-> n]
PyList(l) == [arr |-> l]

\* bool(v)
Truthy(v) ==
    ~(\/ v = None \/ v = JStr("") \/ v = PyList(<<>>) \/ v = PyInt(0) \/ v = PyFloat(0))

\* a list cannot be a dict key: `v in d` raises TypeError
Hashable(v) == ~IsArr(v)

\* v in self.data_buffer, v hashable: the keys are strings
InBuffers(v) == IsStr(v) /\ v.str \in DOMAIN data_buffer

\* isinstance(v, int) and v > 0
PositiveInt(v) == "int" \in DOMAIN v /\ v.int > 0

Returned(value) == [raised |-> FALSE, value |-> value]
Raised == [raised |-> TRUE, value |-> <<>>]

\* the methods without their except clause: the error leaves the call
Caught_Propagates(r) == r

\* except Exception: return {} (lines 228-230), return [] (lines 243-245)
Caught(r) == IF r.raised THEN Returned(<<>>) ELSE r

\* lines 221-227
LatestBody(sensor_type) ==
    IF Truthy(sensor_type)
    THEN IF ~Hashable(sensor_type) THEN Raised
         ELSE IF ~InBuffers(sensor_type) THEN Returned(<<>>)
         ELSE IF sensor_type.str \in DOMAIN sensor_data
              THEN Returned(sensor_data[sensor_type.str])
              ELSE Returned(<<>>)
    ELSE Returned(sensor_data)

\* lines 235-242
BufferBody(sensor_type, limit) ==
    IF ~Hashable(sensor_type) THEN Raised
    ELSE IF ~InBuffers(sensor_type) THEN Returned(<<>>)
    ELSE IF Truthy(limit) /\ PositiveInt(limit)
         THEN Returned(Slice(data_buffer[sensor_type.str], limit.int))
         ELSE Returned(data_buffer[sensor_type.str])

\* IoTManager.get_latest_data(sensor_type) and get_buffer_data(sensor_type, limit)
LatestCall(sensor_type) == Caught(LatestBody(sensor_type))
BufferCall(sensor_type, limit) == Caught(BufferBody(sensor_type, limit))

\* a reader thread calls get_latest_data(sensor_type); a behaviour follows one
\* call of the reader, made in any state
CallLatest(sensor_type) ==
    /\ ret.call = "none"
    /\ ret' = [call |-> "get_latest_data", of |-> sensor_type, limit |-> None,
               result |-> LatestCall(sensor_type)]
    /\ UNCHANGED <<sensor_data, data_buffer, callbacks, clock, msg, outcome, calls,
                   accepted, pc, processed_data, idx, rest>>

\* a reader thread calls get_buffer_data(sensor_type, limit)
CallBuffer(sensor_type, limit) ==
    /\ ret.call = "none"
    /\ ret' = [call |-> "get_buffer_data", of |-> sensor_type, limit |-> limit,
               result |-> BufferCall(sensor_type, limit)]
    /\ UNCHANGED <<sensor_data, data_buffer, callbacks, clock, msg, outcome, calls,
                   accepted, pc, processed_data, idx, rest>>

\* the arguments of the reads
TypeArgs == {JStr("temperature"), JStr("xyz"), None, PyList(<<"temperature">>)}
LimitArgs == {None, PyInt(0), PyInt(-1), PyInt(1), PyInt(3), JStr("1"), PyFloat(3)}

-----------------------------------------------------------------------------
(* The connection manager: connect, _try_reconnect, the client's callbacks  *)
(* on_connect and on_disconnect, and disconnect. The paho client opens a    *)
(* session in connect() / reconnect() and reports the broker's answer and   *)
(* the loss of the session through the callbacks, which only its network    *)
(* thread makes.                                                            *)

\* IoTManager.max_reconnect_attempts
max_reconnect_attempts == 5

\* the topics of _subscribe_to_topics
Topics == {"mossoro/sensors/+/temperature", "mossoro/sensors/+/humidity",
           "mossoro/sensors/+/air_quality", "mossoro/sensors/+/noise",
           "mossoro/sensors/+/traffic"}

\* IoTManager.is_connected()
is_connected == connected /\ client.session = "up"

\* d doubled k times
RECURSIVE Doubled(_, _)
Doubled(d, k) == IF k = 0 THEN d ELSE Doubled(2 * d, k - 1)

\* the broker may still refuse a reconnect / accept a session in this behaviour
MayFail == reconnect_delay < Doubled(5, MaxFailures)
MayOpen == client.sessions < MaxSessions

\* client.connect() or client.reconnect() returned: the socket is open, CONNECT
\* is sent, the broker's CONNACK is still to be read by the network thread
Opened(c) == [c EXCEPT !.session = "opening", !.subscriptions = {}, !.sessions = @ + 1]

\* client.loop_start(): a network thread is started unless there is one
LoopStarted(c) == IF c.loop THEN c ELSE [c EXCEPT !.loop = TRUE, !.loops = @ + 1]

\* connect() with the test of line 44 left out
AlreadyConnected_Never == FALSE

\* line 44: self.client.is_connected()
AlreadyConnected == client.session = "up"

\* the loop of _try_reconnect without its bound
Exhausted_Never(attempts) == FALSE

\* line 60: the loop goes on while attempts < self.max_reconnect_attempts
Exhausted(attempts) == attempts >= max_reconnect_attempts

\* on_disconnect reconnecting whatever the reason code
Unexpected_Always(rc) == TRUE

\* line 84: rc != 0
Unexpected(rc) == rc # 0

\* a thread enters _try_reconnect (line 59)
Started(r) == [r EXCEPT !.pc = "reconnect", !.attempts = 0]

\* the application calls a method of IoTManager
Called(r, op) == [r EXCEPT !.op = op, !.result = "none", !.n = @ + 1]

\* everything the connection manager leaves alone
delivery == <<callbacks, clock, msg, outcome, calls, accepted, pc, processed_data,
              idx, ret, w2, sensor_manager>>

\* IoTManager.connect(), the broker reachable (ok) or not
connect(ok) ==
    LET r == Called(routine["caller"], "connect")
    IN  /\ routine["caller"].pc = "idle"
        /\ routine["caller"].n < MaxCalls
        /\ stopped' = FALSE
        /\ IF AlreadyConnected
           THEN /\ routine' = [routine EXCEPT !["caller"] =
                                   [r EXCEPT !.result = "already connected"]]
                /\ UNCHANGED <<client, connected>>
           ELSE IF ok
           THEN /\ MayOpen
                /\ client' = LoopStarted(Opened(client))
                /\ connected' = TRUE
                /\ routine' = [routine EXCEPT !["caller"] = r]
           ELSE /\ connected' = FALSE
                /\ routine' = [routine EXCEPT !["caller"] = Started(r)]
                /\ UNCHANGED client
        /\ UNCHANGED <<sensor_data, data_buffer, reconnect_delay, delivery>>

\* one turn of the loop of _try_reconnect on thread th: the test of line 60,
\* then the return, the raise of line 77, or client.reconnect() and what follows
\* it up to the sleep. An error that leaves on_disconnect ends the network thread.
Attempt(th, ok) ==
    LET r == routine[th]
        n == r.attempts + 1
    IN  /\ r.pc = "reconnect"
        /\ IF connected
           THEN /\ routine' = [routine EXCEPT ![th] = [r EXCEPT !.pc = "idle"]]
                /\ UNCHANGED <<client, connected, reconnect_delay>>
           ELSE IF Exhausted(r.attempts)
           THEN /\ routine' = [routine EXCEPT ![th] =
                                   [r EXCEPT !.pc = "idle", !.result = "ConnectionError"]]
                /\ client' = IF th = "network" THEN [client EXCEPT !.loop = FALSE]
                                                ELSE client
                /\ UNCHANGED <<connected, reconnect_delay>>
           ELSE IF ok
           THEN /\ MayOpen
                /\ client' = Opened(client)
                /\ connected' = TRUE
                /\ routine' = [routine EXCEPT ![th] = [r EXCEPT !.pc = "idle"]]
                /\ UNCHANGED reconnect_delay
           ELSE /\ MayFail
                /\ reconnect_delay' = reconnect_delay * 2
                /\ routine' = [routine EXCEPT ![th] =
                                   [r EXCEPT !.attempts = n,
                                             !.pc = IF Exhausted(n) THEN "reconnect"
                                                                    ELSE "sleep",
                                             !.wait = IF Exhausted(n) THEN 0
                                                      ELSE reconnect_delay * 2]]
                /\ UNCHANGED <<client, connected>>
        /\ UNCHANGED <<sensor_data, data_buffer, stopped, delivery>>

\* time.sleep(self.reconnect_delay) returns
Wake(th) ==
    /\ routine[th].pc = "sleep"
    /\ routine' = [routine EXCEPT ![th].pc = "reconnect", ![th].wait = 0]
    /\ UNCHANGED <<sensor_data, data_buffer, connected, client, reconnect_delay,
                   stopped, delivery>>

\* the network thread is in its loop, not inside a callback
NetworkFree == client.loop /\ routine["network"].pc = "idle" /\ pc = "idle"

\* IoTManager.on_connect(client, userdata, flags, rc): the network thread read
\* the CONNACK of the session
on_connect(rc) ==
    /\ NetworkFree
    /\ client.session = "opening"
    /\ IF rc = 0
       THEN /\ connected' = TRUE
            /\ client' = [client EXCEPT !.session = "up", !.subscriptions = Topics,
                              !.event = [handler |-> "on_connect", rc |-> rc,
                                         session |-> client.sessions]]
       ELSE /\ connected' = FALSE
            /\ client' = [client EXCEPT !.session = "none",
                              !.event = [handler |-> "on_connect", rc |-> rc,
                                         session |-> client.sessions]]
    /\ UNCHANGED <<sensor_data, data_buffer, reconnect_delay, routine, stopped, delivery>>

\* IoTManager.on_disconnect(client, userdata, rc) on the network thread: the
\* session was lost (rc # 0), or the DISCONNECT of a clean close was written,
\* after which the thread, told to stop by loop_stop(), ends
on_disconnect(rc) ==
    /\ NetworkFree
    /\ IF rc = 0 THEN client.session = "closing" ELSE client.session \in {"opening", "up"}
    /\ client' = [client EXCEPT !.session = "none", !.subscriptions = {},
                      !.loop = (rc # 0),
                      !.event = [handler |-> "on_disconnect", rc |-> rc,
                                 session |-> client.sessions]]
    /\ connected' = FALSE
    /\ routine' = IF Unexpected(rc) THEN [routine EXCEPT !["network"] = Started(@)]
                                     ELSE routine
    /\ UNCHANGED <<sensor_data, data_buffer, reconnect_delay, stopped, delivery>>


\* self.sensor_data = {} and the buffers emptied (lines 271-272)
Emptied(buffer) == [k \in DOMAIN buffer |-> <<>>]

\* a finally clause that starts the manager afresh, subscribers included
disconnect_finally_Everything ==
    /\ sensor_data' = <<>>
    /\ data_buffer' = Emptied(data_buffer)
    /\ callbacks' = <<>>

\* the finally clause of disconnect (lines 269-272): the two attributes it
\* assigns, self.callbacks not among them
disconnect_finally ==
    /\ sensor_data' = <<>>
    /\ data_buffer' = Emptied(data_buffer)
    /\ UNCHANGED callbacks

\* IoTManager.disconnect() called by the application. loop_stop() joins the
\* network thread, so the call waits for a callback under way; fault names the
\* client call that raises, if one does. With the thread gone client.disconnect()
\* writes the DISCONNECT itself and calls on_disconnect(0) before it returns.
disconnect(fault) ==
    LET r == Called(routine["caller"], "disconnect")
        open == client.session \in {"opening", "up"}
    IN  /\ routine["caller"].pc = "idle"
        /\ routine["caller"].n < MaxCalls
        /\ fault = "loop_stop" \/ ~client.loop \/ NetworkFree
        /\ IF fault = "loop_stop"
           THEN /\ routine' = [routine EXCEPT !["caller"] = r]
                /\ UNCHANGED <<client, connected>>
           ELSE IF fault = "disconnect"
           THEN /\ client' = [client EXCEPT !.loop = FALSE]
                /\ routine' = [routine EXCEPT !["caller"] = r]
                /\ UNCHANGED connected
           ELSE /\ client' = [client EXCEPT
                                  !.loop = FALSE, !.session = "none", !.subscriptions = {},
                                  !.event = IF open
                                            THEN [handler |-> "on_disconnect", rc |-> 0,
                                                  session |-> client.sessions]
                                            ELSE @]
                /\ routine' = [routine EXCEPT !["caller"] =
                                   IF open /\ Unexpected(0) THEN Started(r) ELSE r]
                /\ connected' = FALSE
        /\ disconnect_finally
        /\ stopped' = TRUE
        /\ UNCHANGED <<reconnect_delay, clock, msg, outcome, calls, accepted, pc,
                       processed_data, idx, ret, w2, sensor_manager>>

\* on_message called by the network thread for a message of the session
Deliver(m) ==
    /\ NetworkFree
    /\ client.session = "up"
    /\ on_message(m)

\* the faults of disconnect, the reason codes and the messages of these runs
Faults == {"none", "loop_stop", "disconnect"}
ReasonCodes == {0, 1}
InboundConn == {MsgHot}

NextConn ==
    \/ \E ok \in BOOLEAN : connect(ok)
    \/ \E th \in Threads, ok \in BOOLEAN : Attempt(th, ok)
    \/ \E th \in Threads : Wake(th)
    \/ \E rc \in ReasonCodes : on_connect(rc)
    \/ \E rc \in ReasonCodes : on_disconnect(rc)
    \/ \E fault \in Faults : disconnect(fault)
    \/ \E m \in InboundConn : Deliver(m)

SpecConn == Init /\ [][NextConn]_vars

\* the threads run: a thread in _try_reconnect goes on, its sleep ends, and a
\* running network thread reads the CONNACK that has arrived. Nothing obliges
\* the application to call connect() or disconnect(), or the broker to drop a
\* session or to send a message.
FairConn ==
    /\ SpecConn
    /\ \A th \in Threads : WF_vars(\E ok \in BOOLEAN : Attempt(th, ok))
    /\ \A th \in Threads : WF_vars(Wake(th))
    /\ WF_vars(\E rc \in ReasonCodes : on_connect(rc))

-----------------------------------------------------------------------------
(* disconnect() called by a subscriber, that is on the network thread and   *)
(* inside on_message. loop_stop() does not join the thread it is called on: *)
(* it tells the thread to end, and the thread goes on with the callback     *)
(* under way; client.disconnect() queues the DISCONNECT for the thread.     *)

\* lines 204-209, the turn of a subscriber that calls disconnect()
StepDispatchStop ==
    /\ pc = "dispatch"
    /\ NextStops
    /\ calls' = Append(calls, [callback |-> callbacks[TopicType(msg)][idx],
                               arg |-> processed_data,
                               raised |-> callbacks[TopicType(msg)][idx] \in Raising])
    /\ idx' = idx + 1
    /\ client' = [client EXCEPT !.session = IF @ \in {"opening", "up"} THEN "closing" ELSE @]
    /\ connected' = FALSE
    /\ disconnect_finally
    /\ stopped' = TRUE
    /\ routine' = [routine EXCEPT !["network"] = Called(@, "disconnect")]
    /\ UNCHANGED <<clock, msg, outcome, accepted, pc, processed_data, ret,
                   w2, reconnect_delay, sensor_manager>>

\* on_message entered by the network thread for a message of the session
Arrive(m) ==
    /\ NetworkFree
    /\ client.session = "up"
    /\ Receive(m)

\* the subscribers and the messages of these runs
StopSubscribers == {"cbStop", "cbA"}
InboundStop == {MsgHot}

NextStop ==
    \/ connect(TRUE)
    \/ on_connect(0)
    \/ \E cb \in StopSubscribers : register_callback("temperature", cb)
    \/ \E m \in InboundStop : Arrive(m)
    \/ StepAppend
    \/ StepTrim
    \/ StepBucket
    \/ StepLatest
    \/ StepDispatch
    \/ StepDispatchStop
    \/ on_disconnect(0)
    \/ disconnect("none")

SpecStop == Init /\ [][NextStop]_vars

-----------------------------------------------------------------------------
(* Reads in every state of the connection: a reader thread calls the read   *)
(* API while the manager connects, receives, loses the session, retries,    *)
(* gives up and disconnects.                                                *)

InboundRead == {MsgHot}

NextRead ==
    \/ \E ok \in BOOLEAN : connect(ok)
    \/ \E ok \in BOOLEAN : Attempt("caller", ok)
    \/ Wake("caller")
    \/ on_connect(0)
    \/ on_disconnect(1)
    \/ disconnect("none")
    \/ \E m \in InboundRead : Deliver(m)
    \/ \E t \in TypeArgs : CallLatest(t)
    \/ \E t \in TypeArgs, limit \in LimitArgs : CallBuffer(t, limit)

SpecRead == Init /\ [][NextRead]_vars

-----------------------------------------------------------------------------
(* The validators and on_message on readings with defects: a reading that   *)
(* differs from a valid temperature reading in at most two of its fields,   *)
(* on a topic that follows the convention or not.                           *)

\* the key is not in the payload
Absent == [absent |-> TRUE]

\* the payload with the given value for each key, the absent keys left out
Payload(fields) ==
    JObj([k \in {f \in DOMAIN fields : "absent" \notin DOMAIN fields[f]} |-> fields[k]])

Coordinates(lat, lon) == JObj([lat |-> lat, lon |-> lon])

\* the value of "location": a valid one, none, no dict, a key missing at any
\* depth, a latitude that is text, a point outside the box, an unknown zone
Locations ==
    {Location("Centro", -5188, -37344),
     Absent,
     JStr("Centro"),
     JNum(7),
     JObj([coordinates |-> Coordinates(JNum(-5188), JNum(-37344))]),
     JObj([zone |-> JStr("Centro")]),
     JObj([zone |-> JStr("Centro"), coordinates |-> JStr("-5.188,-37.344")]),
     JObj([zone |-> JStr("Centro"), coordinates |-> JObj([lon |-> JNum(-37344)])]),
     JObj([zone |-> JStr("Centro"), coordinates |-> JObj([lat |-> JNum(-5188)])]),
     JObj([zone |-> JStr("Centro"), coordinates |-> Coordinates(JStr("-5.188"), JNum(-37344))]),
     Location("Centro", -6000, -37344),
     Location("Centro", -5188, -38000),
     Location("Centro", -5200, -37300),
     Location("Marte", -5188, -37344)}

\* the valid reading the others are variations of
Base ==
    [value |-> JNum(90), unit |-> JStr("°C"),
     timestamp |-> JStr("2024-05-01T12:00:00.000000"),
     sensor_id |-> JStr("s1"), sensor_type |-> JStr("temperature"),
     location |-> Location("Centro", -5188, -37344), status |-> JStr("active")]

FieldSpace ==
    [value : {JNum(90), JNum(1000), JStr("abc"), Absent},
     unit : {JStr("°C"), JStr("F"), Absent},
     timestamp : {JStr("2024-05-01T12:00:00.000000"), JStr("01/05/2024 12:00"),
                  JNum(1714564800), Absent},
     sensor_id : {JStr("s1"), Absent},
     sensor_type : {JStr("temperature"), JStr("xyz")},
     location : Locations,
     status : {JStr("active"), Absent}]

\* the readings with at most two fields unlike Base
Variations ==
    {f \in FieldSpace : Cardinality({k \in DOMAIN Base : f[k] # Base[k]}) <= 2}

\* a topic of the convention, one with another second segment, one with five segments
TopicsValid ==
    {Topic("s1", "temperature"),
     <<"mossoro", "actuators", "s1", "temperature">>,
     <<"mossoro", "sensors", "norte", "s1", "temperature">>}

\* and two payloads that are no JSON object (a number, an empty list), one that
\* is no JSON and a topic of one segment
InboundValid ==
    {Message(t, Payload(f)) : t \in TopicsValid, f \in Variations}
    \cup {Message(Topic("s1", "temperature"), JNum(90)),
          Message(Topic("s1", "temperature"), [arr |-> <<>>]),
          MsgNotJson, MsgShortTopic}

\* the messages that come before and after them
InboundAfter == {MsgHot, MsgFarAway}

\* the application calls both validators on the payload of the message
\* delivered last, as on_message does (lines 180 and 184); a behaviour
\* follows the messages up to one such call
Validate ==
    /\ pc = "idle"
    /\ clock > 0
    /\ ret.call = "none"
    /\ ret' = [call |-> "validate_sensor_data",
               data |-> msg.payload,
               manager |-> Manager_except(Manager_body(msg.payload, TopicType(msg))),
               processor |-> Processor_validate_sensor_data(msg.payload)]
    /\ UNCHANGED <<sensor_data, data_buffer, callbacks, clock, msg, outcome, calls,
                   accepted, pc, processed_data, idx, rest>>

NextValid ==
    \/ \E m \in InboundValid :
          ret.call = "none" /\ (clock = 0 \/ msg \in InboundAfter) /\ on_message(m)
    \/ \E m \in InboundAfter : ret.call = "none" /\ on_message(m)
    \/ \E cb \in Subscribers : register_callback("temperature", cb)
    \/ Validate

SpecValid == Init /\ [][NextValid]_vars






-----------------------------------------------------------------------------
(* Vocabulary of the properties *)

Last(seq) == seq[Len(seq)]

WellFormedTopic(m) ==
    Len(m.topic) = 4 /\ m.topic[1] = "mossoro" /\ m.topic[2] = "sensors"

\* every reading the Store holds under sensor type t
StoredUnder(t) ==
    (IF t \in DOMAIN sensor_data
     THEN {sensor_data[t][i] : i \in DOMAIN sensor_data[t]} ELSE {})
    \cup
    (IF t \in DOMAIN data_buffer
     THEN {data_buffer[t][i] : i \in 1..Len(data_buffer[t])} ELSE {})

StoreKeys == DOMAIN sensor_data \cup DOMAIN data_buffer

\* the readings on_message accepted for sensor type t, in delivery order
RECURSIVE AcceptedFor(_, _)
AcceptedFor(t, n) ==
    IF n = 0 THEN <<>>
    ELSE IF accepted[n].sensor_type = t
         THEN Append(AcceptedFor(t, n - 1), accepted[n].reading)
         ELSE AcceptedFor(t, n - 1)

\* the last n elements of seq (all of it when it is shorter)
Suffix(seq, n) ==
    IF Len(seq) <= n THEN seq ELSE SubSeq(seq, Len(seq) - n + 1, Len(seq))

Labels(t) ==
    IF t \in DOMAIN SENSOR_TYPES
    THEN {SENSOR_TYPES[t].thresholds[i].label : i \in 1..Len(SENSOR_TYPES[t].thresholds)}
    ELSE {}

\* lo <= value <= hi for a fixed-point value (twice the number) and integers lo, hi
InClosedRange(v, lo, hi) == 2 * lo <= v /\ v <= 2 * hi

\* the step is a complete call of on_message
Delivered == clock' = clock + 1

-----------------------------------------------------------------------------
(* C1 *)

\* the payload has exactly the documented payload fields
DocumentedPayload(payload) ==
    /\ IsObj(payload)
    /\ DOMAIN payload.obj = {"value", "unit", "location", "timestamp"}
    /\ IoTManager_validate_sensor_data(payload, "temperature")

\* C1: a message on a well-formed temperature topic whose payload has exactly
\* the documented fields (value 45.0, zone Centro, coordinates inside the box,
\* a valid timestamp) is stored under its topic's type and id with category
\* hot, is the newest entry of the temperature buffer, and every temperature
\* subscriber has been invoked with it.
C1_DocumentedMessageStored ==
    (/\ outcome.status # "none"
     /\ WellFormedTopic(msg) /\ TopicType(msg) = "temperature"
     /\ DocumentedPayload(msg.payload)
     /\ msg.payload.obj["value"] = JNum(Fx(45)))
    => /\ outcome.status = "stored"
       /\ TopicId(msg) \in DOMAIN get_latest_data("temperature")
       /\ get_latest_data("temperature")[TopicId(msg)].obj["status_category"] = JStr("hot")
       /\ Last(get_buffer_data("temperature")) = get_latest_data("temperature")[TopicId(msg)]
       /\ calls = Invocations(callbacks, "temperature",
                              get_latest_data("temperature")[TopicId(msg)])

-----------------------------------------------------------------------------
(* C2 *)

\* C2: every reading the Store holds under a catalogue sensor type T has a
\* numeric value inside T's valid range.
C2_StoredValuesInRange ==
    \A t \in StoreKeys \cap DOMAIN SENSOR_TYPES : \A r \in StoredUnder(t) :
        /\ IsNum(r.obj["value"])
        /\ InClosedRange(r.obj["value"].num, SENSOR_TYPES[t].valid_range[1],
                  SENSOR_TYPES[t].valid_range[2])

-----------------------------------------------------------------------------
(* C3 *)

\* the defects a message is rejected for
Defective(m) ==
    \/ ~IsObj(m.payload)
    \/ \E i \in 1..Len(required_fields) : ~HasKey(m.payload, required_fields[i])
    \/ ~HasKey(m.payload, "sensor_type")
    \/ LET d == m.payload.obj
           loc == d["location"]
       IN  \/ ~IsStr(d["sensor_type"])
           \/ d["sensor_type"].str \notin DOMAIN SENSOR_TYPES
           \/ ~IsNum(d["value"])
           \/ ~InClosedRange(d["value"].num, SENSOR_TYPES[d["sensor_type"].str].valid_range[1],
                      SENSOR_TYPES[d["sensor_type"].str].valid_range[2])
           \/ ~IsStr(d["timestamp"])
           \/ d["timestamp"].str \notin timestamp_format
           \/ ~HasKey(loc, "zone") \/ ~HasKey(loc, "coordinates")
           \/ loc.obj["zone"] \notin {JStr(z) : z \in DOMAIN ZONES}
           \/ ~HasKey(loc.obj["coordinates"], "lat") \/ ~HasKey(loc.obj["coordinates"], "lon")
           \/ ~IsNum(loc.obj["coordinates"].obj["lat"])
           \/ ~IsNum(loc.obj["coordinates"].obj["lon"])
           \/ loc.obj["coordinates"].obj["lat"].num < lat_range[1]
           \/ loc.obj["coordinates"].obj["lat"].num > lat_range[2]
           \/ loc.obj["coordinates"].obj["lon"].num < lon_range[1]
           \/ loc.obj["coordinates"].obj["lon"].num > lon_range[2]

\* C3: a call of on_message that rejects its message, and every call for a
\* message with one of the defects (undecodable payload, missing field,
\* unknown sensor type, value out of range, invalid timestamp, invalid zone,
\* coordinates out of bounds), leaves the latest map and every ring buffer
\* unchanged and invokes no subscriber.
C3_RejectionHasNoEffect ==
    [][(Delivered /\ (outcome'.status # "stored" \/ Defective(msg')))
        => /\ outcome'.status # "stored"
           /\ sensor_data' = sensor_data
           /\ data_buffer' = data_buffer
           /\ calls' = <<>>]_vars

\* a defective message was rejected while the Store held readings and the
\* message's type had a subscriber
C3_Witness ==
    /\ Defective(msg) /\ outcome.status \in {"rejected", "invalid", "JSONDecodeError"}
    /\ Len(msg.topic) >= 2 /\ TopicType(msg) \in DOMAIN callbacks
    /\ accepted # <<>>

-----------------------------------------------------------------------------
(* C4 *)

\* C4: after every completed on_message call, each ring buffer holds at most
\* buffer_size readings, and they are exactly the last buffer_size readings
\* accepted for its type (all of them when fewer were accepted), in delivery
\* order.
C4_RingBufferFifo ==
    pc = "idle" =>
        \A t \in DOMAIN data_buffer :
            /\ Len(data_buffer[t]) <= buffer_size
            /\ data_buffer[t] = Suffix(AcceptedFor(t, Len(accepted)), buffer_size)

\* more readings than the buffer holds were accepted for one type
C4_Witness ==
    /\ pc = "idle"
    /\ \E t \in DOMAIN data_buffer :
          /\ Len(AcceptedFor(t, Len(accepted))) > buffer_size
          /\ Len(data_buffer[t]) = buffer_size

-----------------------------------------------------------------------------
(* C5 *)

\* the bands of sensor type t whose closed range contains v, by position
BandsContaining(t, v) ==
    {i \in 1..Len(SENSOR_TYPES[t].thresholds) :
        InClosedRange(v, SENSOR_TYPES[t].thresholds[i].lo, SENSOR_TYPES[t].thresholds[i].hi)}

\* C5: every accepted reading carries as status category the label of the
\* first band, in catalogue order, of its sensor type whose closed range
\* contains its value, and "unknown" when no band contains it.
C5_CategoryIsFirstMatchingBand ==
    \A n \in 1..Len(accepted) :
        LET r    == accepted[n].reading
            t    == r.obj["sensor_type"].str
            hits == BandsContaining(t, r.obj["value"].num)
        IN  /\ HasKey(r, "status_category")
            /\ r.obj["status_category"] =
                 JStr(IF hits = {} THEN "unknown"
                      ELSE SENSOR_TYPES[t].thresholds[CHOOSE i \in hits : \A j \in hits : i <= j].label)

\* one accepted reading lies on a boundary shared by two bands and another in no band
C5_Witness ==
    /\ \E n \in 1..Len(accepted) :
          Cardinality(BandsContaining(accepted[n].reading.obj["sensor_type"].str,
                                      accepted[n].reading.obj["value"].num)) = 2
    /\ \E n \in 1..Len(accepted) :
          /\ BandsContaining(accepted[n].reading.obj["sensor_type"].str,
                             accepted[n].reading.obj["value"].num) = {}
          /\ accepted[n].reading.obj["status_category"] = JStr("unknown")

-----------------------------------------------------------------------------
(* C6 *)

\* C6: every reading the Store holds under a buffered sensor type T has a
\* status category, and it is a threshold label of T or "unknown".
C6_StoredCategoryBelongsToType ==
    \A t \in DOMAIN data_buffer : \A r \in StoredUnder(t) :
        /\ HasKey(r, "status_category")
        /\ IsStr(r.obj["status_category"])
        /\ r.obj["status_category"].str \in Labels(t) \cup {"unknown"}

-----------------------------------------------------------------------------
(* C7 *)

\* C7: every reading in the Store names a known zone whose allowed sensor
\* types include the reading's sensor type.
C7_StoredZoneAllowsType ==
    \A t \in StoreKeys : \A r \in StoredUnder(t) :
        LET zone == r.obj["location"].obj["zone"]
        IN  /\ IsStr(zone) /\ zone.str \in DOMAIN ZONES
            /\ r.obj["sensor_type"].str \in ZONES[zone.str]

-----------------------------------------------------------------------------
(* C8 *)

\* C8: a message whose topic names no sensor type of the catalogue is not
\* stored and reaches no subscriber, and the latest map has no bucket for
\* such a type.
C8_UnknownTopicTypeRejected ==
    /\ DOMAIN sensor_data \subseteq DOMAIN SENSOR_TYPES
    /\ (outcome.status # "none" /\ Len(msg.topic) >= 2
          /\ TopicType(msg) \notin DOMAIN SENSOR_TYPES)
        => (outcome.status # "stored" /\ calls = <<>>)

-----------------------------------------------------------------------------
(* C9 *)

\* C9: right after on_message accepted a message of a catalogue sensor type
\* (the payload naming the same type as the topic), get_latest_data(type)
\* maps the message's sensor id to the reading just stored and that reading
\* is the last element of get_buffer_data(type).
C9_WriteThenRead ==
    (/\ pc = "idle" /\ outcome.status = "stored"
     /\ TopicType(msg) \in DOMAIN SENSOR_TYPES
     /\ msg.payload.obj["sensor_type"] = JStr(TopicType(msg)))
    => /\ TopicId(msg) \in DOMAIN get_latest_data(TopicType(msg))
       /\ get_latest_data(TopicType(msg))[TopicId(msg)] = Last(accepted).reading
       /\ get_buffer_data(TopicType(msg)) # <<>>
       /\ Last(get_buffer_data(TopicType(msg))) = Last(accepted).reading

-----------------------------------------------------------------------------
(* C10 *)

\* the sensor id the reading was stored for
IdOf(reading) ==
    accepted[CHOOSE n \in 1..Len(accepted) : accepted[n].reading = reading].sensor_id

\* C10: a reader running beside on_message never gets a ring buffer longer
\* than buffer_size from get_buffer_data, and when it reads the buffer and then
\* the latest map of one type, the latest map holds, for the sensor of the
\* newest buffered reading, that reading or a later one.
C10_NoTornRead ==
    /\ ret.call # "none" => Len(ret.buffer) <= buffer_size
    /\ (ret.call = "get_latest_data" /\ ret.buffer # <<>>)
        => /\ IdOf(Last(ret.buffer)) \in DOMAIN ret.latest
           /\ ret.latest[IdOf(Last(ret.buffer))].obj["processed_timestamp"].time
                >= Last(ret.buffer).obj["processed_timestamp"].time


-----------------------------------------------------------------------------
(* Concurrent writers *)

\* no call of on_message is under way on either thread
Quiescent == pc = "idle" /\ w2.pc = "idle"

\* the accepted messages of one (type, sensor id), as positions in accepted
SameSensor(a) ==
    {j \in 1..Len(accepted) : /\ accepted[j].sensor_type = a.sensor_type
                              /\ accepted[j].sensor_id = a.sensor_id}

\* C11: when the calls of on_message on both threads have ended, every accepted
\* message that is the only one of its sensor is the sensor's entry in the
\* latest map, and it is in its type's buffer as long as the type received no
\* more than buffer_size messages: two messages of different sensor ids never
\* cost each other their update, whatever the interleaving.
C11_NoLostUpdate ==
    Quiescent =>
        \A i \in 1..Len(accepted) :
            LET a == accepted[i]
                t == a.sensor_type
            IN  SameSensor(a) = {i} =>
                    /\ t \in DOMAIN sensor_data
                    /\ a.sensor_id \in DOMAIN sensor_data[t]
                    /\ sensor_data[t][a.sensor_id] = a.reading
                    /\ Len(AcceptedFor(t, Len(accepted))) <= buffer_size
                          => \E k \in 1..Len(data_buffer[t]) : data_buffer[t][k] = a.reading


-----------------------------------------------------------------------------
(* Readers and subscribers *)

\* C12: only the delivery of a message changes the Store: whatever a reader
\* does to the mapping or list it was returned or to a reading in it, and
\* whatever a subscriber does to the reading it was called with, the latest
\* map and the buffers stay as they were.
C12_ReadersGetCopies ==
    [][~Delivered => (sensor_data' = sensor_data /\ data_buffer' = data_buffer)]_vars


\* the subscribers of sequence l, in order, from position i on
RECURSIVE NamesFrom(_, _)
NamesFrom(l, i) == IF i > Len(l) THEN <<>> ELSE <<l[i].callback>> \o NamesFrom(l, i + 1)

\* the subscribers registered for the type of message m when it is delivered
RegisteredFor(m) ==
    IF TopicType(m) \in DOMAIN callbacks THEN callbacks[TopicType(m)] ELSE <<>>

\* C13: the delivery of an accepted message calls every subscriber registered
\* for its type, those before and those after one that raises; the reading
\* stays the newest of its buffer (for a type that has one) and the latest of
\* its sensor, and the handler ends normally.
C13_SubscriberIsolation ==
    [][(Delivered /\ outcome'.status = "stored")
        => /\ \A i \in 1..Len(RegisteredFor(msg')) :
                 \E n \in 1..Len(calls') : calls'[n].callback = RegisteredFor(msg')[i]
           /\ TopicType(msg') \in DOMAIN data_buffer
                 => Last(data_buffer'[TopicType(msg')]) = Last(accepted').reading
           /\ sensor_data'[TopicType(msg')][TopicId(msg')] = Last(accepted').reading]_vars

\* a delivery in which the first subscriber raised and the second was called
C13_Witness ==
    /\ outcome.status = "stored"
    /\ TopicType(msg) = "temperature"
    /\ Len(calls) = 2
    /\ calls[1].raised /\ ~calls[2].raised
    /\ Last(data_buffer[TopicType(msg)]) = calls[1].arg
    /\ sensor_data[TopicType(msg)][TopicId(msg)] = calls[2].arg


\* sequence a is the beginning of sequence b
IsPrefix(a, b) == Len(a) <= Len(b) /\ \A i \in 1..Len(a) : a[i] = b[i]

\* C14: the subscribers of a type keep their places in its list, a new one
\* comes after them; and the delivery of an accepted message calls exactly the
\* subscribers registered for its type, each once, in the order of the list,
\* before the handler ends.
C14_RegistrationOrder ==
    [][/\ \A t \in DOMAIN callbacks :
             t \in DOMAIN callbacks' /\ IsPrefix(callbacks[t], callbacks'[t])
       /\ (Delivered /\ outcome'.status = "stored")
             => NamesFrom(calls', 1) = RegisteredFor(msg')]_vars

\* a delivery to two subscribers of one type, registered cbA first
C14_Witness ==
    /\ outcome.status = "stored"
    /\ RegisteredFor(msg) = <<"cbA", "cbB">>
    /\ NamesFrom(calls, 1) = <<"cbA", "cbB">>
    /\ pc = "idle"


-----------------------------------------------------------------------------
(* The connection *)

\* the application's call of connect() / of disconnect() is this step
ConnectCall ==
    /\ routine'["caller"].n = routine["caller"].n + 1
    /\ routine'["caller"].op = "connect"
DisconnectCall ==
    /\ routine'["caller"].n = routine["caller"].n + 1
    /\ routine'["caller"].op = "disconnect"

\* C15: the reconnect routine never makes more than max_reconnect_attempts
\* attempts and never waits after the last one; when the last attempt of the
\* routine that connect() entered has failed and the manager is still not
\* connected, the routine ends at once with a ConnectionError raised to the
\* caller of connect() and the manager not connected; and connect() raises
\* that error in no other case.
C15_BoundedRetry ==
    [][/\ \A th \in Threads :
             /\ routine'[th].attempts <= max_reconnect_attempts
             /\ routine'[th].pc = "sleep" => routine'[th].attempts < max_reconnect_attempts
       /\ (/\ routine["caller"].pc = "reconnect"
           /\ routine["caller"].attempts = max_reconnect_attempts
           /\ ~connected
           /\ routine'["caller"] # routine["caller"])
             => /\ routine'["caller"].pc = "idle"
                /\ routine'["caller"].result = "ConnectionError"
                /\ ~connected'
                /\ ~is_connected'
       /\ (/\ routine'["caller"].result = "ConnectionError"
           /\ routine["caller"].result # "ConnectionError")
             => /\ routine["caller"].op = "connect"
                /\ routine["caller"].attempts = max_reconnect_attempts]_vars

\* connect() has raised ConnectionError after the initial failure and five
\* failed reconnects, the delay doubled five times
C15_Witness ==
    /\ routine["caller"].op = "connect"
    /\ routine["caller"].result = "ConnectionError"
    /\ routine["caller"].attempts = 5
    /\ routine["caller"].pc = "idle"
    /\ ~connected
    /\ reconnect_delay = 160

\* the client has just called on_disconnect
DisconnectReported ==
    client'.event # client.event /\ client'.event.handler = "on_disconnect"

\* C16: on_disconnect with a reason code other than 0 leaves the manager not
\* connected and its thread at the first attempt of the reconnect routine;
\* on_disconnect with reason code 0 starts no routine, opens no session and
\* leaves the delay alone.
C16_ReconnectOnlyWhenUnexpected ==
    [][DisconnectReported
        => /\ ~connected'
           /\ IF client'.event.rc # 0
              THEN /\ routine'["network"].pc = "reconnect"
                   /\ routine'["network"].attempts = 0
              ELSE /\ \A th \in Threads : routine'[th].pc = "idle"
                   /\ client'.sessions = client.sessions
                   /\ reconnect_delay' = reconnect_delay]_vars

\* a session was lost and the network thread is about to reconnect
C16_Witness ==
    /\ client.event.handler = "on_disconnect"
    /\ client.event.rc = 1
    /\ client.session = "none"
    /\ routine["network"].pc = "reconnect"
    /\ routine["network"].attempts = 0
    /\ ~connected

\* C17: a session that connect() or the reconnect routine has opened, the
\* manager marked connected, leads to the five topics being subscribed, unless
\* the session ends or the application calls disconnect() first.
C17_SubscribesAfterConnect ==
    (client.session = "opening" /\ connected)
        ~> (client.subscriptions = Topics \/ client.session # "opening" \/ stopped)

\* C18: when disconnect() returns, whether or not loop_stop() or
\* client.disconnect() raised, the latest map is empty, every buffer is empty,
\* the read API returns nothing and is_connected() is false.
C18_FullResetOnDisconnect ==
    [][DisconnectCall
        => /\ sensor_data' = <<>>
           /\ \A t \in DOMAIN data_buffer' : data_buffer'[t] = <<>>
           /\ \A t \in DOMAIN data_buffer' :
                 get_latest_data(t)' = <<>> /\ get_buffer_data(t)' = <<>>
           /\ ~is_connected']_vars

\* C20: connect() called while the client is connected changes neither the
\* client (no session opened, no thread started, the subscriptions kept) nor
\* the connected flag, the delay, the Store or the subscribers, and starts no
\* reconnect routine.
C20_ConnectIdempotent ==
    [][(ConnectCall /\ client.session = "up")
        => /\ client' = client
           /\ connected' = connected
           /\ reconnect_delay' = reconnect_delay
           /\ sensor_data' = sensor_data /\ data_buffer' = data_buffer
           /\ callbacks' = callbacks
           /\ routine'["caller"].pc = "idle"
           /\ routine'["caller"].result # "ConnectionError"
           /\ routine'["network"] = routine["network"]]_vars

\* a second connect() has found the client connected: one session, one thread
C20_Witness ==
    /\ routine["caller"].op = "connect"
    /\ routine["caller"].result = "already connected"
    /\ routine["caller"].n = 2
    /\ is_connected
    /\ client.sessions = 1
    /\ client.loops = 1
    /\ client.subscriptions = Topics


\* C19: from the return of disconnect() until the next call of connect() the
\* latest map and the buffers are empty and stay so, and no subscriber is
\* called, in whichever thread disconnect() was called.
C19_QuietAfterDisconnect ==
    [][stopped'
        => /\ sensor_data' = <<>>
           /\ \A t \in DOMAIN data_buffer' : data_buffer'[t] = <<>>
           /\ stopped => calls' = calls]_vars


-----------------------------------------------------------------------------
(* C22 *)

\* the position in the delivery order of an accepted reading
DeliveryIndex(reading) == CHOOSE n \in 1..Len(accepted) : accepted[n].reading = reading

\* accepted[n] is the newest accepted message of its sensor type and sensor id
NewestOfSensor(n) ==
    \A k \in (n + 1)..Len(accepted) :
        ~(/\ accepted[k].sensor_type = accepted[n].sensor_type
          /\ accepted[k].sensor_id = accepted[n].sensor_id)

\* C22: after every call of on_message, the readings of one sensor id stand in
\* the type's ring buffer in the order their messages were delivered, and the
\* latest map holds, for each sensor type and sensor id, the reading of the
\* newest accepted message of that sensor and nothing else; a rejected
\* message that comes later leaves it so.
C22_PerSensorOrder ==
    pc = "idle" =>
        /\ \A t \in DOMAIN data_buffer : \A i, j \in 1..Len(data_buffer[t]) :
              LET a == data_buffer[t][i]
                  b == data_buffer[t][j]
              IN  /\ \E n \in 1..Len(accepted) :
                        accepted[n].reading = a /\ accepted[n].sensor_type = t
                  /\ (i < j /\ accepted[DeliveryIndex(a)].sensor_id
                                  = accepted[DeliveryIndex(b)].sensor_id)
                        => DeliveryIndex(a) < DeliveryIndex(b)
        /\ \A n \in 1..Len(accepted) :
              NewestOfSensor(n)
                => LET t == accepted[n].sensor_type
                       id == accepted[n].sensor_id
                   IN  /\ t \in DOMAIN sensor_data
                       /\ id \in DOMAIN sensor_data[t]
                       /\ sensor_data[t][id] = accepted[n].reading
        /\ \A t \in DOMAIN sensor_data : \A id \in DOMAIN sensor_data[t] :
              \E n \in 1..Len(accepted) :
                  /\ NewestOfSensor(n)
                  /\ accepted[n].sensor_type = t /\ accepted[n].sensor_id = id
                  /\ accepted[n].reading = sensor_data[t][id]

\* two messages of one temperature sensor were accepted, a third was rejected:
\* the buffer holds the two in delivery order and latest is the second
C22_Witness ==
    /\ pc = "idle" /\ clock = 3 /\ outcome.status # "stored"
    /\ Len(accepted) = 2
    /\ accepted[1].sensor_type = "temperature" /\ accepted[2].sensor_type = "temperature"
    /\ accepted[1].sensor_id = accepted[2].sensor_id
    /\ accepted[1].reading # accepted[2].reading
    /\ data_buffer["temperature"] = <<accepted[1].reading, accepted[2].reading>>
    /\ sensor_data["temperature"][accepted[2].sensor_id] = accepted[2].reading

-----------------------------------------------------------------------------
(* C24 *)

\* C24: the thread that delivers the messages (the client's network thread,
\* which calls on_message) is never inside the reconnect routine, neither in
\* one of its connection attempts nor in one of its sleeps.
C24_ReconnectOffDeliveryPath == routine["network"].pc = "idle"

-----------------------------------------------------------------------------
(* C25 *)

\* the required fields of a reading, each as the path of keys that leads to it
RequiredPaths ==
    {<<"value">>, <<"unit">>, <<"timestamp">>, <<"sensor_id">>, <<"location">>,
     <<"location", "zone">>, <<"location", "coordinates">>,
     <<"location", "coordinates", "lat">>, <<"location", "coordinates", "lon">>}

RECURSIVE HasPath(_, _)
HasPath(j, path) ==
    path = <<>> \/ (HasKey(j, Head(path)) /\ HasPath(j.obj[Head(path)], Tail(path)))

\* the required fields the reading lacks
MissingFields(data) == {path \in RequiredPaths : ~HasPath(data, path)}

\* the reason is a missing-field reason that names the field
NamesField(error, path) ==
    Len(error) = 2 /\ error[1] = "Campo obrigatório ausente" /\ error[2] = Last(path)

\* C25: a delivered reading that lacks a required field is rejected with a
\* missing-field reason that names a field it lacks, whatever else is wrong
\* with it.
C25_StructuralPassFirst ==
    (pc = "idle" /\ clock > 0 /\ IsObj(msg.payload) /\ MissingFields(msg.payload) # {})
    => /\ outcome.status \in {"rejected", "invalid"}
       /\ \E path \in MissingFields(msg.payload) : NamesField(outcome.error, path)

-----------------------------------------------------------------------------
(* C26 *)

\* the reading has numeric coordinates with lat in [-5.2, -5.1] and lon in
\* [-37.4, -37.3], in thousandths of a degree
CoordinatesInBox(reading) ==
    /\ HasPath(reading, <<"location", "coordinates", "lat">>)
    /\ HasPath(reading, <<"location", "coordinates", "lon">>)
    /\ LET c == reading.obj["location"].obj["coordinates"].obj
       IN  /\ IsNum(c["lat"]) /\ IsNum(c["lon"])
           /\ -5200 <= c["lat"].num /\ c["lat"].num <= -5100
           /\ -37400 <= c["lon"].num /\ c["lon"].num <= -37300

\* C26: every reading in the latest map and in the ring buffers has
\* coordinates inside the bounding box, and a message whose reading has a
\* coordinate outside the box or one that is no number is not stored.
C26_StoredInsideBox ==
    /\ \A t \in StoreKeys : \A r \in StoredUnder(t) : CoordinatesInBox(r)
    /\ (pc = "idle" /\ clock > 0 /\ IsObj(msg.payload) /\ ~CoordinatesInBox(msg.payload))
          => outcome.status # "stored"

\* a reading on the corner of the box was stored, and the next one, south of
\* the box, was rejected for its coordinates
C26_Witness ==
    /\ pc = "idle" /\ clock = 2
    /\ Len(accepted) = 1
    /\ accepted[1].reading.obj["location"] = Location("Centro", -5200, -37300)
    /\ data_buffer["temperature"] = <<accepted[1].reading>>
    /\ msg = MsgFarAway
    /\ outcome.error = <<"Coordenadas fora do range válido para Mossoró">>

-----------------------------------------------------------------------------
(* C27 *)

\* the step is a call of the two validators
Validated == ret.call = "none" /\ ret'.call = "validate_sensor_data"

\* C27: called on any reading, IoTManager.validate_sensor_data and
\* SensorDataProcessor.validate_sensor_data each return acceptance or
\* rejection and raise nothing, and the call leaves the reading, the latest
\* map, the ring buffers and the subscriber lists as they were.
C27_ValidationPureAndTotal ==
    [][Validated
        => /\ ~Raises(ret'.manager) /\ ret'.manager.returns \in BOOLEAN
           /\ ~Raises(ret'.processor) /\ ret'.processor.valid \in BOOLEAN
           /\ ret'.data = msg.payload
           /\ sensor_data' = sensor_data
           /\ data_buffer' = data_buffer
           /\ callbacks' = callbacks]_vars

\* with a reading stored and a subscriber registered, the validators were
\* called on a reading whose timestamp is a number, and both rejected it
C27_Witness ==
    /\ ret.call = "validate_sensor_data"
    /\ HasKey(ret.data, "timestamp") /\ IsNum(ret.data.obj["timestamp"])
    /\ ret.manager = Returns(TRUE)
    /\ ret.processor = Invalid(<<"Erro de validação">>)
    /\ data_buffer["temperature"] # <<>>
    /\ "temperature" \in DOMAIN callbacks

-----------------------------------------------------------------------------
(* C30 *)

\* the topic follows <namespace>/sensors/<sensorId>/<sensorType>
ConventionalTopic(m) == Len(m.topic) = 4 /\ m.topic[2] = "sensors"

\* C30: a call of on_message for a message whose topic has not four segments,
\* or has a second segment other than "sensors", rejects the message: it
\* leaves the latest map and the ring buffers unchanged and invokes no
\* subscriber.
C30_MalformedTopicRejected ==
    [][(Delivered /\ ~ConventionalTopic(msg'))
        => /\ outcome'.status # "stored"
           /\ sensor_data' = sensor_data
           /\ data_buffer' = data_buffer
           /\ calls' = <<>>]_vars

-----------------------------------------------------------------------------
(* C28 *)

RECURSIVE Pow2(_)
Pow2(k) == IF k = 0 THEN 1 ELSE 2 * Pow2(k - 1)

\* C28: the sleep that follows the k-th failed attempt of a reconnect episode
\* lasts 5 * 2^(k-1) seconds (5, 10, 20, ...), and no sleep follows the fifth,
\* the last, failed attempt.
C28_ExponentialBackoff ==
    \A th \in Threads :
        routine[th].pc = "sleep"
        => /\ routine[th].attempts \in 1..4
           /\ routine[th].wait = 5 * Pow2(routine[th].attempts - 1)

-----------------------------------------------------------------------------
(* C29 *)

\* C29: whatever connects, disconnects and reconnect episodes came before,
\* the backoff delay is at most 160 seconds, the value it has after the five
\* failed attempts of one episode that began with the initial delay.
C29_DelayCeiling == reconnect_delay <= 5 * Pow2(5)

-----
(* The read API *)

\* C21: a call of get_latest_data or get_buffer_data returns a result and
\* raises nothing, for a known or unknown sensor type, None or a value that
\* cannot be a key, for a limit that is absent, zero, negative, positive or no
\* integer, and in whichever state the connection is.
C21_ReadNeverRaises ==
    ret.call \in {"get_latest_data", "get_buffer_data"} => ~ret.result.raised

\* get_buffer_data with a list as sensor type returned [] after connect()
\* had given up
C21_Witness ==
    /\ ret.call = "get_buffer_data"
    /\ ret.of = PyList(<<"temperature">>)
    /\ ret.result = [raised |-> FALSE, value |-> <<>>]
    /\ routine["caller"].result = "ConnectionError"
    /\ ~connected

\* the reader's call of get_buffer_data for a type that has a buffer is this step
BufferRead ==
    /\ ret.call = "none"
    /\ ret'.call = "get_buffer_data"
    /\ IsStr(ret'.of)
    /\ ret'.of.str \in DOMAIN data_buffer

\* C23: get_buffer_data(type, limit) with a positive integer limit returns the
\* min(limit, size) newest readings of the type's buffer in buffer order, with
\* no limit the whole buffer, and leaves the buffer as it was.
C23_BufferLimit ==
    [][BufferRead
        => LET buf == data_buffer[ret'.of.str]
               l == ret'.limit
               out == ret'.result.value
           IN  /\ data_buffer' = data_buffer
               /\ ~ret'.result.raised
               /\ l = None => out = buf
               /\ ("int" \in DOMAIN l /\ l.int > 0)
                     => /\ Len(out) = (IF l.int < Len(buf) THEN l.int ELSE Len(buf))
                        /\ out = Suffix(buf, l.int)]_vars

\* with two readings buffered, limit 1 returned the newer one
C23_Witness ==
    /\ ret.call = "get_buffer_data"
    /\ ret.of = JStr("temperature")
    /\ ret.limit = PyInt(1)
    /\ Len(accepted) >= 2
    /\ ret.result.value = <<accepted[2].reading>>

-----------------------------------------------------------------------------
(* C31 *)

\* the ways a call of on_message ends when nothing leaves it: the reading is
\* stored, a validator rejects it, or an except clause logs the exception
NormalEndings == {"stored", "rejected", "invalid", "JSONDecodeError", "Exception"}

\* C31: every call of on_message ends normally, whatever the topic, the
\* payload and the subscribers, and a valid message delivered after any
\* other is stored and handed to every subscriber of its type.
C31_NothingPropagates ==
    [][Delivered
        => /\ outcome'.status \in NormalEndings
           /\ msg' = MsgHot
                => /\ outcome'.status = "stored"
                   /\ Last(data_buffer'["temperature"]) = Last(accepted').reading
                   /\ sensor_data'["temperature"]["s1"] = Last(accepted').reading
                   /\ Len(calls') = (IF "temperature" \in DOMAIN callbacks
                                     THEN Len(callbacks["temperature"]) ELSE 0)]_vars

\* the first message was dropped; the second, a valid one, was stored although
\* the first of its two subscribers raised
C31_Witness ==
    /\ pc = "idle" /\ clock = 2 /\ msg = MsgHot
    /\ Len(accepted) = 1
    /\ sensor_data["temperature"]["s1"] = accepted[1].reading
    /\ Len(calls) = 2
    /\ calls[1].callback = "cbB" /\ calls[1].raised
    /\ calls[2].callback = "cbA" /\ ~calls[2].raised

-----------------------------------------------------------------------------
(* C32 *)

\* C32: every subscriber that on_message invoked for a message of (type, id)
\* was handed a reading that the latest map holds for (type, id) and that is
\* in the ring buffer of the type.
C32_DispatchAfterStore ==
    \A i \in 1..Len(calls) :
        LET t == TopicType(msg)
            id == TopicId(msg)
        IN  /\ t \in DOMAIN sensor_data
            /\ id \in DOMAIN sensor_data[t]
            /\ sensor_data[t][id] = calls[i].arg
            /\ t \in DOMAIN data_buffer
            /\ \E k \in 1..Len(data_buffer[t]) : data_buffer[t][k] = calls[i].arg

-----------------------------------------------------------------------------
(* C33 *)

\* the fields of a raw reading
RawFields ==
    {"sensor_id", "sensor_type", "value", "unit", "timestamp", "location", "status", "battery"}

\* C33: the processed reading that on_message stores for an accepted message
\* carries the catalogue's unit of the reading's sensor type, whatever unit
\* the payload gave, and every other raw field with the value the payload
\* gave.
C33_UnitFromCatalog ==
    [][(Delivered /\ outcome'.status = "stored")
        => LET raw == msg'.payload.obj
               out == accepted'[Len(accepted')].reading.obj
           IN  /\ out["unit"] = JStr(SENSOR_TYPES[raw["sensor_type"].str].units)
               /\ \A k \in (DOMAIN raw \cap RawFields) \ {"unit"} :
                     k \in DOMAIN out /\ out[k] = raw[k]]_vars

\* a temperature reading that gave its unit as F was stored with unit °C, its
\* status field carried over
C33_Witness ==
    /\ pc = "idle" /\ clock = 1 /\ outcome.status = "stored"
    /\ HasKey(msg.payload, "unit") /\ msg.payload.obj["unit"] = JStr("F")
    /\ accepted[1].reading.obj["unit"] = JStr("°C")
    /\ HasKey(msg.payload, "status")
    /\ accepted[1].reading.obj["status"] = JStr("active")
    /\ accepted[1].reading.obj["value"] = msg.payload.obj["value"]

-----------------------------------------------------------------------------
(* C34 *)

\* C34: when the application's last call was connect(), the call has returned
\* without raising and the manager is marked connected, the client's network
\* thread is running.
C34_LoopRunsAfterConnect ==
    (/\ routine["caller"].op = "connect"
     /\ routine["caller"].pc = "idle"
     /\ routine["caller"].result # "ConnectionError"
     /\ connected)
    => client.loop

-----------------------------------------------------------------------------
(* C35 *)

\* a call of disconnect() has run, on the application's thread or on the
\* network thread
Disconnecting ==
    /\ stopped'
    /\ \E th \in Threads : routine'[th].op = "disconnect" /\ routine'[th].n = routine[th].n + 1

\* the subscribers invoked for the message, in the order of their invocation
Invoked(cs) == [i \in 1..Len(cs) |-> cs[i].callback]

\* C35: a call of disconnect() leaves every subscriber list as it was, and
\* when the dispatch of a stored message ends, in whatever session, the
\* subscribers invoked are those of the list of the message's type, in the
\* order of the list.
C35_SubscribersSurviveDisconnect ==
    [][/\ Disconnecting => callbacks' = callbacks
       /\ (pc = "dispatch" /\ pc' = "idle")
            => Invoked(calls') = IF TopicType(msg) \in DOMAIN callbacks
                                 THEN callbacks[TopicType(msg)] ELSE <<>>]_vars

\* the subscriber that disconnects ran for the first message and, after a
\* second connect(), again for the second, behind the other subscriber
C35_Witness ==
    /\ pc = "idle" /\ clock = 2 /\ outcome.status = "stored"
    /\ client.sessions = 2
    /\ routine["network"].op = "disconnect" /\ routine["network"].n = 2
    /\ callbacks = [temperature |-> <<"cbA", "cbStop">>]
    /\ Invoked(calls) = <<"cbA", "cbStop">>
    /\ Len(accepted) = 2

-----------------------------------------------------------------------------
(* register_callback called with any value, between the messages *)

\* the messages of these runs
InboundReg == {MsgHot, MsgUnknownTopic}

NextReg ==
    \/ \E m \in InboundReg : on_message(m)
    \/ \E t \in SubscribedTypes, cb \in Subscribers \cup NotCallable : register_callback(t, cb)

SpecReg == Init /\ [][NextReg]_vars

-----------------------------------------------------------------------------
(* C36 *)

\* C36: a call of register_callback with a value that is not callable raises
\* ValueError and leaves every subscriber list as it was, and no dispatch
\* invokes such a value.
C36_NotCallableRejected ==
    [][/\ (ret'.call = "register_callback" /\ ret' # ret)
            => ret'.raised = "ValueError" /\ callbacks' = callbacks
       /\ \A t \in DOMAIN callbacks' : \A i \in 1..Len(callbacks'[t]) :
            callbacks'[t][i] \notin NotCallable
       /\ \A i \in 1..Len(calls') : calls'[i].callback \notin NotCallable]_vars

\* register_callback('temperature', None) raised after a subscriber had
\* registered, and the next temperature reading went to that subscriber alone
C36_Witness ==
    /\ ret.call = "register_callback" /\ ret.callback = "None"
    /\ ret.sensor_type = "temperature" /\ ret.raised = "ValueError"
    /\ callbacks = [temperature |-> <<"cbA">>]
    /\ outcome.status = "stored" /\ msg = MsgHot
    /\ Len(calls) = 1 /\ calls[1].callback = "cbA"

-----------------------------------------------------------------------------
(* iot_sensors.py: IoTSensorManager. on_message, on the client's network    *)
(* thread, puts (sensor_id, payload) on data_queue; the threads connect()   *)
(* starts run process_data, which takes the items off the queue and updates *)
(* the sensors. queue.Queue is thread-safe: put and get are atomic.         *)

\* IoTSensor.__init__: no reading yet
IoTSensor == [last_reading |-> None, status |-> "inactive"]

\* IoTSensor.update_reading(data)
update_reading(sensor, data) == [sensor EXCEPT !.last_reading = data, !.status = "active"]

\* a thread that has just been started with target process_data
NewWorker == [pc |-> "test", item |-> <<>>]

\* the threads inside process_data
Alive == {w \in 1..Len(workers) : workers[w].pc # "ended"}

\* IoTSensorManager.add_sensor(sensor_id, ...)
add_sensor(sensor_id) ==
    /\ sensor_id \notin DOMAIN sensors
    /\ sensors' = DictSet(sensors, sensor_id, IoTSensor)
    /\ last_queued' = DictSet(last_queued, sensor_id, None)
    /\ UNCHANGED <<data_queue, running, mqtt_client, workers, arrivals>>
    /\ UNCHANGED iot_manager

\* self.mqtt_client.connect(host, port) and what follows it in connect():
\* the call closes the socket the client has; when it raises, connect() logs
\* and returns; when it returns, running is set, a new thread is started with
\* target process_data, and loop_start() starts the network thread unless
\* there is one
connect_body(ok) ==
    IF ok
    THEN /\ Len(workers) < MaxWorkers
         /\ mqtt_client' = [session |-> "opening", loop |-> TRUE]
         /\ running' = TRUE
         /\ workers' = Append(workers, NewWorker)
    ELSE /\ mqtt_client' = [mqtt_client EXCEPT !.session = "none"]
         /\ UNCHANGED <<running, workers>>

\* IoTSensorManager.connect() called by the application
SensorManager_connect(ok) ==
    /\ connect_body(ok)
    /\ UNCHANGED <<sensors, data_queue, arrivals, last_queued>>
    /\ UNCHANGED iot_manager

\* IoTSensorManager.on_connect(client, userdata, flags, rc) on the network
\* thread: with rc = 0 the client subscribes to sensors/#
SensorManager_on_connect(rc) ==
    /\ mqtt_client.loop
    /\ mqtt_client.session = "opening"
    /\ mqtt_client' = IF rc = 0 THEN [mqtt_client EXCEPT !.session = "up"] ELSE mqtt_client
    /\ UNCHANGED <<sensors, data_queue, running, workers, arrivals, last_queued>>
    /\ UNCHANGED iot_manager

\* IoTSensorManager.on_message(client, userdata, m) on the network thread;
\* json.loads raising, or the bytes not being text, is caught and logged
SensorManager_on_message(m) ==
    LET topic_parts == m.topic
        sensor_id == topic_parts[3]
    IN  /\ mqtt_client.loop
        /\ mqtt_client.session = "up"
        /\ arrivals < MaxMsgs
        /\ arrivals' = arrivals + 1
        /\ IF Len(topic_parts) >= 3 /\ ~IsRaw(m.payload)
           THEN /\ data_queue' = Append(data_queue, <<sensor_id, m.payload>>)
                /\ last_queued' = IF sensor_id \in DOMAIN sensors
                                  THEN DictSet(last_queued, sensor_id, m.payload)
                                  ELSE last_queued
           ELSE UNCHANGED <<data_queue, last_queued>>
        /\ UNCHANGED <<sensors, running, mqtt_client, workers>>
        /\ UNCHANGED iot_manager

\* IoTSensorManager.on_disconnect(client, userdata, rc) on the network thread,
\* the session lost: with rc # 0 it calls self.connect()
SensorManager_on_disconnect(rc, ok) ==
    /\ mqtt_client.loop
    /\ mqtt_client.session \in {"opening", "up"}
    /\ IF rc # 0
       THEN connect_body(ok)
       ELSE /\ mqtt_client' = [mqtt_client EXCEPT !.session = "none"]
            /\ UNCHANGED <<running, workers>>
    /\ UNCHANGED <<sensors, data_queue, arrivals, last_queued>>
    /\ UNCHANGED iot_manager

\* IoTSensorManager.disconnect() called by the application: loop_stop() ends
\* the network thread, client.disconnect() closes the session
SensorManager_disconnect ==
    /\ running' = FALSE
    /\ mqtt_client' = [session |-> "none", loop |-> FALSE]
    /\ UNCHANGED <<sensors, data_queue, workers, arrivals, last_queued>>
    /\ UNCHANGED iot_manager

\* process_data on thread w, line 105: while self.running
process_data_test(w) ==
    /\ w \in DOMAIN workers
    /\ workers[w].pc = "test"
    /\ workers' = [workers EXCEPT ![w].pc = IF running THEN "get" ELSE "ended"]
    /\ UNCHANGED <<sensors, data_queue, running, mqtt_client, arrivals, last_queued>>
    /\ UNCHANGED iot_manager

\* line 107: self.data_queue.get(timeout=1.0) returns the oldest item, or
\* raises queue.Empty after the second, which sends the thread back to line 105
process_data_get(w) ==
    /\ w \in DOMAIN workers
    /\ workers[w].pc = "get"
    /\ IF data_queue # <<>>
       THEN /\ workers' = [workers EXCEPT ![w] = [pc |-> "update", item |-> Head(data_queue)]]
            /\ data_queue' = Tail(data_queue)
       ELSE /\ workers' = [workers EXCEPT ![w].pc = "test"]
            /\ UNCHANGED data_queue
    /\ UNCHANGED <<sensors, running, mqtt_client, arrivals, last_queued>>
    /\ UNCHANGED iot_manager

\* lines 108-110: the item is applied when its sensor is registered
process_data_update(w) ==
    /\ w \in DOMAIN workers
    /\ workers[w].pc = "update"
    /\ LET sensor_id == workers[w].item[1]
           data == workers[w].item[2]
       IN  sensors' = IF sensor_id \in DOMAIN sensors
                      THEN [sensors EXCEPT ![sensor_id] = update_reading(@, data)]
                      ELSE sensors
    /\ workers' = [workers EXCEPT ![w] = NewWorker]
    /\ UNCHANGED <<data_queue, running, mqtt_client, arrivals, last_queued>>
    /\ UNCHANGED iot_manager

\* the sensors the application adds, the results of the broker, the messages
AddedSensors == {"s1"}
ConnackCodes == {0, 5}
SensorReading(n) == JObj([value |-> JNum(n)])
InboundSensors ==
    {Message(<<"sensors", "temperature", "s1">>, SensorReading(1)),
     Message(<<"sensors", "temperature", "s1">>, SensorReading(2)),
     Message(<<"sensors", "temperature", "s9">>, SensorReading(3)),
     Message(<<"sensors", "s1">>, SensorReading(4)),
     Message(<<"sensors", "temperature", "s1">>, [raw |-> "not json"])}

NextSensors ==
    \/ \E sensor_id \in AddedSensors : add_sensor(sensor_id)
    \/ \E ok \in BOOLEAN : SensorManager_connect(ok)
    \/ \E rc \in ConnackCodes : SensorManager_on_connect(rc)
    \/ \E m \in InboundSensors : SensorManager_on_message(m)
    \/ \E ok \in BOOLEAN : SensorManager_on_disconnect(1, ok)
    \/ SensorManager_disconnect
    \/ \E w \in 1..MaxWorkers : process_data_test(w)
    \/ \E w \in 1..MaxWorkers : process_data_get(w)
    \/ \E w \in 1..MaxWorkers : process_data_update(w)

SpecSensors == Init /\ [][NextSensors]_vars

-----------------------------------------------------------------------------
(* C37 *)

\* every item put on the queue has been taken off it and applied or dropped
Drained == data_queue = <<>> /\ \A w \in DOMAIN workers : workers[w].pc # "update"

\* a step of process_data that applies an item to its registered sensor
Applies ==
    \E w \in DOMAIN workers :
        /\ workers[w].pc = "update"
        /\ workers[w].item[1] \in DOMAIN sensors
        /\ workers'[w].pc = "test"

\* C37: once the queue has drained, every registered sensor for which a
\* message was queued holds the payload of the last of them as last_reading
\* and is active; and a sensor changes only when an item queued for its id is
\* applied, never through a message for an id that was not added, a topic of
\* fewer than three segments or a payload that is not JSON.
C37_FifoApplied ==
    /\ [](Drained => \A id \in DOMAIN sensors :
              last_queued[id] # None
                  => /\ sensors[id].last_reading = last_queued[id]
                     /\ sensors[id].status = "active")
    /\ [][(\E id \in DOMAIN sensors : sensors'[id] # sensors[id]) => Applies]_vars

\* C38: at most one thread is inside process_data at a time.
C38_OneWorker == Cardinality(Alive) <= 1

====
